---- MODULE Spec2Model ----
(***************************************************************************)
(* A model of the Hex engine of FWeynschenk/hex: the HexGame board state   *)
(* (src/unnamed/part_000), the FastHexGame union-find board of the         *)
(* optimized search (src/ai/advancedHexAI.js), the bounded negamax search  *)
(* (src/ai/heuristicAI.js) and the front of the standard MCTS strategy     *)
(* (src/ai/mctsAI.js, src/ai/randomAI.js).                                 *)
(*                                                                         *)
(* Objects are records, methods are operators that return the method's    *)
(* result together with the object after the call.                        *)
(***************************************************************************)
EXTENDS Integers, Sequences, FiniteSets, TLC

VARIABLES
    game,       \* the HexGame object of the host
    last,       \* the call made by the last step: [op, row, col, ret]
    swapDone,   \* history: some swapSides() call has succeeded
    fast,       \* the FastHexGame object of the optimized search
    ai,         \* the answer of the last strategy call
    provider,   \* the AIProvider object of the worker
    worker,     \* the globals of the worker and what its last handler posted
    lobby,      \* the HexLobbyUI object, its promises and the messages in flight
    tree        \* the search tree of a Monte-Carlo search, or the input of a pure function

\* The variables of the worker, of the page and of the search tree, left
\* alone by the calls on a game and on the strategies
hostVars == <<provider, worker, lobby, tree>>

vars == <<game, last, swapDone, fast, ai, provider, worker, lobby, tree>>

----------------------------------------------------------------------------
(* Game constants                                                          *)

PLAYER_RED == 1
PLAYER_BLUE == 2
EMPTY == 0
\* JavaScript null, for HexGame.winner
NULL == 0
\* JavaScript null, for a move
NullMove == <<>>

\* The value undefined returned in place of a move
UndefinedMove == <<-1>>

----------------------------------------------------------------------------
(* Bounds of the model                                                     *)

\* HexGame.makeMove is not called on a game that already holds this many stones
MaxMoves == 4

\* Board sizes of the games explored under SpecGame
GameSizes == {1, 2, 3, 7}

\* Board sizes of the games the optimized search is run on under SpecFast
FastSizes == {1, 2, 3}

\* A FastHexGame is built only from a board with at most this many empty cells
MaxEmpty == 5
MaxSearchEmpty == 5
SearchSizes == {1, 2, 3, 4, 7}

\* Board sizes on which only the opening book is consulted
BookSizes == {11, 13}

\* The moves played before a strategy is asked
MaxSearchMoves == 6

\* The batches of simulations the optimized search completes before its
\* deadline
MaxBatches == 1

----------------------------------------------------------------------------
(* Helpers                                                                 *)

Range(s) == {s[i] : i \in 1..Len(s)}

Cells(n) == (0..(n - 1)) \X (0..(n - 1))

\* The cells of an n x n board in the order of the nested r, c loops
RowMajor(n) == [i \in 1..(n * n) |-> <<(i - 1) \div n, (i - 1) % n>>]

Other(p) == IF p = PLAYER_RED THEN PLAYER_BLUE ELSE PLAYER_RED

----------------------------------------------------------------------------
(* HexGame                                                                 *)

NewHexGame(n) ==
    [size |-> n,
     board |-> [p \in Cells(n) |-> EMPTY],
     currentPlayer |-> PLAYER_RED,
     moveCount |-> 0,
     gameOver |-> FALSE,
     winner |-> NULL,
     swapAvailable |-> FALSE,
     history |-> <<>>]

isValidMove_NoOccupiedCheck(g, row, col) ==
    IF row < 0 \/ row >= g.size \/ col < 0 \/ col >= g.size THEN FALSE
    ELSE IF g.size = 7 /\ g.moveCount = 0
            /\ row = g.size \div 2 /\ col = g.size \div 2 THEN FALSE
    ELSE TRUE

isValidMove(g, row, col) ==
    IF row < 0 \/ row >= g.size \/ col < 0 \/ col >= g.size THEN FALSE
    ELSE IF g.board[<<row, col>>] # EMPTY THEN FALSE
    ELSE IF g.size = 7 /\ g.moveCount = 0
            /\ row = g.size \div 2 /\ col = g.size \div 2 THEN FALSE
    ELSE TRUE

NeighborOffsets == << <<-1, 0>>, <<-1, 1>>, <<0, -1>>, <<0, 1>>, <<1, -1>>, <<1, 0>> >>

getNeighbors(g, row, col) ==
    SelectSeq([i \in 1..6 |-> <<row + NeighborOffsets[i][1], col + NeighborOffsets[i][2]>>],
              LAMBDA p : p[1] >= 0 /\ p[1] < g.size /\ p[2] >= 0 /\ p[2] < g.size)

\* The cells the breadth-first search of checkWin starts from
StartEdge(g, player) ==
    IF player = PLAYER_RED
    THEN SelectSeq([i \in 1..g.size |-> <<0, i - 1>>], LAMBDA p : g.board[p] = PLAYER_RED)
    ELSE SelectSeq([i \in 1..g.size |-> <<i - 1, 0>>], LAMBDA p : g.board[p] = PLAYER_BLUE)

ReachedFarEdge(g, player, p) ==
    IF player = PLAYER_RED THEN p[1] = g.size - 1 ELSE p[2] = g.size - 1

RECURSIVE bfsWin(_, _, _, _)
bfsWin(g, player, queue, visited) ==
    IF queue = <<>> THEN FALSE
    ELSE LET cur == Head(queue) IN
         IF ReachedFarEdge(g, player, cur) THEN TRUE
         ELSE LET fresh == SelectSeq(getNeighbors(g, cur[1], cur[2]),
                                     LAMBDA p : p \notin visited /\ g.board[p] = player)
              IN bfsWin(g, player, Tail(queue) \o fresh, visited \cup Range(fresh))

checkWin(g, player) ==
    LET start == StartEdge(g, player)
    IN bfsWin(g, player, start, Range(start))

makeMove_NoCount(g, row, col) ==
    IF ~isValidMove(g, row, col) \/ g.gameOver THEN [ret |-> FALSE, game |-> g]
    ELSE LET placed == [g EXCEPT !.board[<<row, col>>] = g.currentPlayer,
                                 !.history = Append(g.history,
                                     [row |-> row, col |-> col, player |-> g.currentPlayer]),
                                 !.swapAvailable = (g.moveCount + 1 = 1) \/ g.swapAvailable]
         IN IF checkWin(placed, g.currentPlayer)
            THEN [ret |-> TRUE,
                  game |-> [placed EXCEPT !.gameOver = TRUE, !.winner = g.currentPlayer]]
            ELSE [ret |-> TRUE,
                  game |-> [placed EXCEPT !.currentPlayer = Other(g.currentPlayer),
                                          !.swapAvailable = FALSE]]

makeMove(g, row, col) ==
    IF ~isValidMove(g, row, col) \/ g.gameOver THEN [ret |-> FALSE, game |-> g]
    ELSE LET placed == [g EXCEPT !.board[<<row, col>>] = g.currentPlayer,
                                 !.history = Append(g.history,
                                     [row |-> row, col |-> col, player |-> g.currentPlayer]),
                                 !.moveCount = g.moveCount + 1,
                                 !.swapAvailable = (g.moveCount + 1 = 1) \/ g.swapAvailable]
         IN IF checkWin(placed, g.currentPlayer)
            THEN [ret |-> TRUE,
                  game |-> [placed EXCEPT !.gameOver = TRUE, !.winner = g.currentPlayer]]
            ELSE [ret |-> TRUE,
                  game |-> [placed EXCEPT !.currentPlayer = Other(g.currentPlayer),
                                          !.swapAvailable = FALSE]]

swapSides_KeepsEligibility(g) ==
    IF g.moveCount # 1 \/ ~g.swapAvailable THEN [ret |-> FALSE, game |-> g]
    ELSE [ret |-> TRUE,
          game |-> [g EXCEPT !.board = [p \in Cells(g.size) |->
                                            IF g.board[p] = PLAYER_RED THEN PLAYER_BLUE
                                            ELSE IF g.board[p] = PLAYER_BLUE THEN PLAYER_RED
                                            ELSE g.board[p]],
                             !.currentPlayer = PLAYER_RED]]

swapSides(g) ==
    IF g.moveCount # 1 \/ ~g.swapAvailable THEN [ret |-> FALSE, game |-> g]
    ELSE [ret |-> TRUE,
          game |-> [g EXCEPT !.board = [p \in Cells(g.size) |->
                                            IF g.board[p] = PLAYER_RED THEN PLAYER_BLUE
                                            ELSE IF g.board[p] = PLAYER_BLUE THEN PLAYER_RED
                                            ELSE g.board[p]],
                             !.swapAvailable = FALSE,
                             !.currentPlayer = PLAYER_RED]]

getValidMoves(g) ==
    SelectSeq(RowMajor(g.size), LAMBDA p : g.board[p] = EMPTY)


----------------------------------------------------------------------------
(* UnionFind and FastHexGame (the optimized search's board)                *)

\* a | b and a & b on the 4-bit group status
BitOr(a, b) ==
    LET bit(k) == IF (a \div k) % 2 = 1 \/ (b \div k) % 2 = 1 THEN k ELSE 0
    IN bit(1) + bit(2) + bit(4) + bit(8)

BitAnd(a, b) ==
    LET bit(k) == IF (a \div k) % 2 = 1 /\ (b \div k) % 2 = 1 THEN k ELSE 0
    IN bit(1) + bit(2) + bit(4) + bit(8)

RECURSIVE ufRoot(_, _)
ufRoot(parent, i) == IF parent[i] = i THEN i ELSE ufRoot(parent, parent[i])

RECURSIVE ufCompress(_, _, _)
ufCompress(parent, curr, root) ==
    IF curr = root THEN parent
    ELSE ufCompress([parent EXCEPT ![curr] = root], parent[curr], root)

\* UnionFind.find: the root, and the parent array after path compression
find(parent, i) ==
    LET root == ufRoot(parent, i)
    IN [root |-> root, parent |-> ufCompress(parent, i, root)]

\* UnionFind.union: the parent array after the call
union(parent, i, j) ==
    LET fi == find(parent, i)
        fj == find(fi.parent, j)
    IN IF fi.root # fj.root THEN [fj.parent EXCEPT ![fi.root] = fj.root]
       ELSE fj.parent

initCell_NoBottom(f, idx, player) ==
    LET r == idx \div f.size
        c == idx % f.size
        status == IF player = 1
                  THEN (IF r = 0 THEN 1 ELSE 0)
                  ELSE (IF c = 0 THEN 4 ELSE 0) + (IF c = f.size - 1 THEN 8 ELSE 0)
        fr == find(f.parent, idx)
    IN [f EXCEPT !.parent = fr.parent,
                 !.groupStatus[fr.root] = BitOr(f.groupStatus[fr.root], status)]

initCell(f, idx, player) ==
    LET r == idx \div f.size
        c == idx % f.size
        status == IF player = 1
                  THEN (IF r = 0 THEN 1 ELSE 0) + (IF r = f.size - 1 THEN 2 ELSE 0)
                  ELSE (IF c = 0 THEN 4 ELSE 0) + (IF c = f.size - 1 THEN 8 ELSE 0)
        fr == find(f.parent, idx)
    IN [f EXCEPT !.parent = fr.parent,
                 !.groupStatus[fr.root] = BitOr(f.groupStatus[fr.root], status)]

unionGroups_KeepsOneStatus(f, i, j) ==
    LET fi == find(f.parent, i)
        fj == find(fi.parent, j)
    IN IF fi.root # fj.root
       THEN LET joined == union(fj.parent, fi.root, fj.root)
                fn == find(joined, fi.root)
            IN [f EXCEPT !.parent = fn.parent,
                         !.groupStatus[fn.root] = f.groupStatus[fj.root]]
       ELSE [f EXCEPT !.parent = fj.parent]

unionGroups(f, i, j) ==
    LET fi == find(f.parent, i)
        fj == find(fi.parent, j)
    IN IF fi.root # fj.root
       THEN LET status == BitOr(f.groupStatus[fi.root], f.groupStatus[fj.root])
                joined == union(fj.parent, fi.root, fj.root)
                fn == find(joined, fi.root)
            IN [f EXCEPT !.parent = fn.parent, !.groupStatus[fn.root] = status]
       ELSE [f EXCEPT !.parent = fj.parent]

getNeighborsIdx(f, idx) ==
    LET r == idx \div f.size
        c == idx % f.size
        at == [i \in 1..6 |-> <<r + NeighborOffsets[i][1], c + NeighborOffsets[i][2]>>]
        inside == SelectSeq(at, LAMBDA p : p[1] >= 0 /\ p[1] < f.size
                                           /\ p[2] >= 0 /\ p[2] < f.size)
    IN [i \in 1..Len(inside) |-> inside[i][1] * f.size + inside[i][2]]

\* for (const n of ns) if (board[n] === player) unionGroups(idx, n)
RECURSIVE unionWithNeighbors(_, _, _, _)
unionWithNeighbors(f, idx, player, ns) ==
    IF ns = <<>> THEN f
    ELSE unionWithNeighbors(
             IF f.board[Head(ns)] = player THEN unionGroups(f, idx, Head(ns)) ELSE f,
             idx, player, Tail(ns))

\* The constructor's first loop: initCell for every stone, from cell i on
RECURSIVE initAllCells(_, _)
initAllCells(f, i) ==
    IF i >= f.size * f.size THEN f
    ELSE initAllCells(IF f.board[i] # 0 THEN initCell(f, i, f.board[i]) ELSE f, i + 1)

\* The constructor's second loop: union every stone with its same-side neighbours
RECURSIVE unionAllCells(_, _)
unionAllCells(f, i) ==
    IF i >= f.size * f.size THEN f
    ELSE unionAllCells(
             IF f.board[i] # 0
             THEN unionWithNeighbors(f, i, f.board[i], getNeighborsIdx(f, i))
             ELSE f,
             i + 1)

NewFastHexGame(sourceGame) ==
    LET n == sourceGame.size
        idxs == 0..(n * n - 1)
        flat == [i \in idxs |-> sourceGame.board[<<i \div n, i % n>>]]
        empties == SelectSeq([i \in 1..(n * n) |-> i - 1], LAMBDA i : flat[i] = 0)
        raw == [built |-> TRUE,
                pc |-> "select",
                ret |-> 0,
                size |-> n,
                board |-> flat,
                emptyCells |-> empties,
                movesHistory |-> <<>>,
                currentPlayer |-> sourceGame.currentPlayer,
                parent |-> [i \in idxs |-> i],
                groupStatus |-> [i \in idxs |-> 0],
                filledCount |-> n * n - Len(empties)]
        linked == unionAllCells(initAllCells(raw, 0), 0)
    IN [built |-> TRUE, pc |-> "select", ret |-> 0,
        size |-> n, board |-> linked.board, emptyCells |-> linked.emptyCells,
        movesHistory |-> <<>>, currentPlayer |-> linked.currentPlayer,
        parent |-> linked.parent, groupStatus |-> linked.groupStatus,
        filledCount |-> linked.filledCount,
        initialBoard |-> linked.board, initialPlayer |-> linked.currentPlayer,
        initialEmpty |-> linked.emptyCells, initialGroupStatus |-> linked.groupStatus,
        initialUF |-> linked.parent, initialFilledCount |-> linked.filledCount]

\* A reset that leaves the union-find as the simulation left it
reset_KeepsUnionFind(f) ==
    [f EXCEPT !.board = f.initialBoard,
              !.currentPlayer = f.initialPlayer,
              !.emptyCells = f.initialEmpty,
              !.movesHistory = <<>>,
              !.groupStatus = f.initialGroupStatus,
              !.filledCount = f.initialFilledCount]

reset(f) ==
    [f EXCEPT !.board = f.initialBoard,
              !.currentPlayer = f.initialPlayer,
              !.emptyCells = f.initialEmpty,
              !.movesHistory = <<>>,
              !.groupStatus = f.initialGroupStatus,
              !.parent = f.initialUF,
              !.filledCount = f.initialFilledCount]

isValidFirstMove(f, idx) ==
    IF f.size # 7 THEN TRUE
    ELSE IF f.filledCount # 0 THEN TRUE
    ELSE ~(idx \div f.size = f.size \div 2 /\ idx % f.size = f.size \div 2)

fastGetValidMoves(f) ==
    LET ok == SelectSeq([i \in 1..(f.size * f.size) |-> i - 1],
                        LAMBDA i : f.board[i] = 0 /\ isValidFirstMove(f, i))
    IN [k \in 1..Len(ok) |-> <<ok[k] \div f.size, ok[k] % f.size>>]

\* A removal that leaves the list as it is
removeEmpty_KeepsCell(cells, idx) == cells

\* emptyCells after the swap-with-last-and-pop removal of idx
removeEmpty(cells, idx) ==
    IF \E k \in 1..Len(cells) : cells[k] = idx
    THEN LET at == CHOOSE k \in 1..Len(cells) :
                       cells[k] = idx /\ \A j \in 1..(k - 1) : cells[j] # idx
             moved == [cells EXCEPT ![at] = cells[Len(cells)]]
         IN SubSeq(moved, 1, Len(cells) - 1)
    ELSE cells

\* The placement shared by makeMove and the playout loop: the stone, the
\* history, the empty list, the union-find, the side to move
placeStone(f, idx) ==
    LET put == [f EXCEPT !.board[idx] = f.currentPlayer,
                         !.movesHistory = Append(f.movesHistory,
                                                 [id |-> idx, player |-> f.currentPlayer]),
                         !.emptyCells = removeEmpty(f.emptyCells, idx)]
        linked == unionWithNeighbors(initCell(put, idx, f.currentPlayer), idx,
                                     f.currentPlayer, getNeighborsIdx(put, idx))
    IN [linked EXCEPT !.currentPlayer = IF f.currentPlayer = 1 THEN 2 ELSE 1]

fastMakeMove(f, r, c) ==
    placeStone([f EXCEPT !.filledCount = f.filledCount + 1], r * f.size + c)

\* FastHexGame.checkWin from cell i on: the verdict, and the parent array
\* after the path compressions of the find() calls made
RECURSIVE fastCheckWinFrom(_, _, _, _)
fastCheckWinFrom(f, parent, player, i) ==
    IF i >= f.size * f.size THEN [ret |-> FALSE, parent |-> parent]
    ELSE IF f.board[i] = player
         THEN LET fr == find(parent, i)
                  winningMask == IF player = 1 THEN 3 ELSE 12
              IN IF BitAnd(f.groupStatus[fr.root], winningMask) = winningMask
                 THEN [ret |-> TRUE, parent |-> fr.parent]
                 ELSE fastCheckWinFrom(f, fr.parent, player, i + 1)
         ELSE fastCheckWinFrom(f, parent, player, i + 1)

fastCheckWin(f, player) == fastCheckWinFrom(f, f.parent, player, 0)

\* FastHexGame.getWinner: the winner (0 for none) and the game after the call
getWinner(f) ==
    LET w1 == fastCheckWin(f, 1)
        f1 == [f EXCEPT !.parent = w1.parent]
        w2 == fastCheckWin(f1, 2)
    IN IF w1.ret THEN [ret |-> 1, fast |-> f1]
       ELSE IF w2.ret THEN [ret |-> 2, fast |-> [f1 EXCEPT !.parent = w2.parent]]
       ELSE [ret |-> 0, fast |-> [f1 EXCEPT !.parent = w2.parent]]

getCommonEmptyNeighbor(f, n1, n2, exclude) ==
    LET ns1 == getNeighborsIdx(f, n1)
        ns2 == getNeighborsIdx(f, n2)
        hits == SelectSeq(ns1, LAMBDA n : n # exclude /\ f.board[n] = 0
                                          /\ n \in Range(ns2))
    IN IF hits = <<>> THEN -1 ELSE hits[1]

\* The bridge save of playoutSmart: the first pair (i < j) of the mover's
\* stones next to the opponent's last stone that has a common empty
\* neighbour; -1 when there is none
bridgeSave(f) ==
    IF f.movesHistory = <<>> THEN -1
    ELSE LET oppIdx == f.movesHistory[Len(f.movesHistory)].id
             myNeighbors == SelectSeq(getNeighborsIdx(f, oppIdx),
                                      LAMBDA n : f.board[n] = f.currentPlayer)
             pairs == {ij \in (1..Len(myNeighbors)) \X (1..Len(myNeighbors)) :
                          /\ ij[1] < ij[2]
                          /\ getCommonEmptyNeighbor(f, myNeighbors[ij[1]],
                                                    myNeighbors[ij[2]], oppIdx) # -1}
         IN IF pairs = {} THEN -1
            ELSE LET first == CHOOSE ij \in pairs :
                                  \A kl \in pairs :
                                      ij[1] < kl[1] \/ (ij[1] = kl[1] /\ ij[2] <= kl[2])
                 IN getCommonEmptyNeighbor(f, myNeighbors[first[1]],
                                           myNeighbors[first[2]], oppIdx)

\* The cells the random branch of playoutSmart can end on: any empty cell,
\* never the centre while a 7x7 game has filledCount 0 (the retry loop)
randomPicks(f) ==
    {idx \in Range(f.emptyCells) :
        ~(f.size = 7 /\ f.filledCount = 0
          /\ idx = (f.size \div 2) * f.size + (f.size \div 2))}


\* The cell the random branch draws when Math.random() returns draw / 100:
\* emptyCells[Math.floor(Math.random() * emptyCells.length)]
drawnCell(f, draw) == f.emptyCells[(draw * Len(f.emptyCells)) \div 100 + 1]

\* The cells the random branch can end on when its first draw is draw / 100:
\* the drawn cell, or, when that is the centre of a 7x7 game with filledCount
\* 0, whatever the redraws of the retry loop end on
drawnPicks(f, draw) ==
    IF f.size = 7 /\ f.filledCount = 0
       /\ drawnCell(f, draw) = (f.size \div 2) * f.size + (f.size \div 2)
    THEN randomPicks(f)
    ELSE {drawnCell(f, draw)}

----------------------------------------------------------------------------
(* JavaScript numbers of the searches: integers, +Infinity, -Infinity, NaN *)

PosInf == 1000000000
NegInf == -1000000000
NaN == 2000000000

jsNeg(x) == IF x = NaN THEN NaN ELSE 0 - x

jsSub(a, b) ==
    IF a = NaN \/ b = NaN THEN NaN
    ELSE IF a = PosInf THEN (IF b = PosInf THEN NaN ELSE PosInf)
    ELSE IF a = NegInf THEN (IF b = NegInf THEN NaN ELSE NegInf)
    ELSE IF b = PosInf THEN NegInf
    ELSE IF b = NegInf THEN PosInf
    ELSE a - b

\* a > b, a >= b: false as soon as one side is NaN
jsGt(a, b) == a # NaN /\ b # NaN /\ a > b

jsGe(a, b) == a # NaN /\ b # NaN /\ a >= b

\* Math.max(a, b): NaN as soon as one side is NaN
jsMax(a, b) == IF a = NaN \/ b = NaN THEN NaN ELSE IF a >= b THEN a ELSE b

----------------------------------------------------------------------------
(* HexEvaluator as a set of functions of a board                           *)

Abs(x) == IF x < 0 THEN 0 - x ELSE x

\* The if-chain of isVirtuallyConnected: the intermediate cells pushed for
\* the offset (dr, dc) from (r1, c1), none when no branch matches
bridgeIntermediates(r1, c1, dr, dc) ==
    IF dr = 2 /\ dc = 0 THEN <<<<r1 + 1, c1 - 1>>, <<r1 + 1, c1>>>>
    ELSE IF dr = -2 /\ dc = 0 THEN <<<<r1 - 1, c1>>, <<r1 - 1, c1 + 1>>>>
    ELSE IF dr = 0 /\ dc = 2 THEN <<<<r1 - 1, c1 + 1>>, <<r1, c1 + 1>>>>
    ELSE IF dr = 0 /\ dc = -2 THEN <<<<r1, c1 - 1>>, <<r1 + 1, c1 - 1>>>>
    ELSE IF dr = 1 /\ dc = 1 THEN <<<<r1, c1 + 1>>, <<r1 + 1, c1>>>>
    ELSE IF dr = -1 /\ dc = -1 THEN <<<<r1 - 1, c1>>, <<r1, c1 - 1>>>>
    ELSE IF dr = 1 /\ dc = -2 THEN <<<<r1, c1 - 1>>, <<r1 + 1, c1 - 1>>>>
    ELSE IF dr = -1 /\ dc = 2 THEN <<<<r1 - 1, c1 + 1>>, <<r1, c1 + 1>>>>
    ELSE IF dr = 2 /\ dc = -1 THEN <<<<r1 + 1, c1 - 1>>, <<r1 + 1, c1>>>>
    ELSE IF dr = -2 /\ dc = 1 THEN <<<<r1 - 1, c1>>, <<r1 - 1, c1 + 1>>>>
    ELSE <<>>

\* The loop over the intermediate cells: each one in bounds and empty
intermediatesFree(g, intermediates) ==
    \A k \in 1..Len(intermediates) :
        /\ intermediates[k] \in Cells(g.size)
        /\ g.board[intermediates[k]] = EMPTY

\* HexEvaluator.isVirtuallyConnected(game, pos1, pos2, player)
isVirtuallyConnected(g, pos1, pos2, player) ==
    LET dr == pos2[1] - pos1[1]
        dc == pos2[2] - pos1[2]
    IN IF Abs(dr) + Abs(dc) = 2
       THEN LET intermediates == bridgeIntermediates(pos1[1], pos1[2], dr, dc)
            IN Len(intermediates) = 2 /\ intermediatesFree(g, intermediates)
       ELSE FALSE

\* INF of calculateResistance
INF == 1000000

\* The resistance of the cells of the starting edge before the sweeps
startResistance(g, player) ==
    [p \in Cells(g.size) |->
        IF (IF player = PLAYER_RED THEN p[1] = 0 ELSE p[2] = 0)
           /\ (g.board[p] = EMPTY \/ g.board[p] = player)
        THEN (IF g.board[p] = player THEN 0 ELSE 1)
        ELSE INF]

\* The inner loop over the neighbours of one cell: the resistance of the
\* cell after it, and whether it was lowered
RECURSIVE relaxCell(_, _, _, _, _)
relaxCell(resistance, p, cellResistance, ns, k) ==
    IF k > Len(ns) THEN resistance
    ELSE LET newResistance == resistance[ns[k]] + cellResistance
         IN relaxCell(IF newResistance < resistance[p]
                      THEN [resistance EXCEPT ![p] = newResistance]
                      ELSE resistance,
                      p, cellResistance, ns, k + 1)

\* The body of the two inner loops for the cell p
sweepCell(g, player, resistance, p) ==
    IF g.board[p] = Other(player) THEN resistance
    ELSE relaxCell(resistance, p, IF g.board[p] = player THEN 0 ELSE 1,
                   getNeighbors(g, p[1], p[2]), 1)

\* The cells lo..hi of the row-major order, one after the other on the
\* table the cells before them left; the range is halved so that the table
\* after the first half is computed before the second half starts
RECURSIVE sweepRange(_, _, _, _, _)
sweepRange(g, player, resistance, lo, hi) ==
    IF lo = hi THEN sweepCell(g, player, resistance, RowMajor(g.size)[lo])
    ELSE LET mid == (lo + hi) \div 2
         IN CHOOSE out \in {sweepRange(g, player, half, mid + 1, hi) :
                               half \in {sweepRange(g, player, resistance, lo, mid)}} : TRUE

\* One pass over the cells in row-major order, from cell i of the order on;
\* the passes update the table in place
sweep(g, player, resistance, i) ==
    IF i > g.size * g.size THEN resistance
    ELSE sweepRange(g, player, resistance, i, g.size * g.size)

\* A single pass over the cells
sweeps_OnePass(g, player, resistance, iter) == sweep(g, player, resistance, 1)

\* The passes: at most size * size of them, stopping after a pass that
\* lowered nothing
RECURSIVE sweeps(_, _, _, _)
sweeps(g, player, resistance, iter) ==
    IF iter >= g.size * g.size THEN resistance
    ELSE LET next == sweep(g, player, resistance, 1)
         IN IF next = resistance THEN resistance
            ELSE sweeps(g, player, next, iter + 1)

\* Math.min over a set of numbers, starting from INF
minOf(S) == IF S = {} THEN INF ELSE CHOOSE x \in S : \A y \in S : x <= y

\* HexEvaluator.calculateResistance(game, player)
calculateResistance(g, player) ==
    LET resistance == sweeps(g, player, startResistance(g, player), 0)
        farEdge == {p \in Cells(g.size) :
                       IF player = PLAYER_RED THEN p[1] = g.size - 1
                       ELSE p[2] = g.size - 1}
    IN minOf({INF} \cup {resistance[p] : p \in farEdge})

----------------------------------------------------------------------------
(* HexEvaluator, on boards with floor(size / 4) = 0                         *)

\* evaluateCenterControl's sum, doubled (an opponent stone counts -0.5)
centerControlTwice(g, player) ==
    LET center == g.size \div 2
        radius == g.size \div 4
        window == {p \in Cells(g.size) : /\ p[1] >= center - radius /\ p[1] <= center + radius
                                         /\ p[2] >= center - radius /\ p[2] <= center + radius}
        own == Cardinality({p \in window : g.board[p] = player})
        opp == Cardinality({p \in window : g.board[p] # player /\ g.board[p] # EMPTY})
    IN 2 * own - opp

\* evaluatePosition where radius = floor(size / 4) is 0: evaluateCenterControl
\* divides by radius * radius * 4 = 0, which is +Infinity, -Infinity or NaN
\* (0 / 0), and the weighted sum with the three finite terms is that value.
evaluatePosition(g, player) ==
    CASE g.size \div 4 = 0 ->
        LET control == centerControlTwice(g, player)
        IN IF control > 0 THEN PosInf ELSE IF control < 0 THEN NegInf ELSE NaN

\* evaluateEdgeConnection's count: the player's stones on its first edge plus
\* those on its second edge
edgeConnections(g, player) ==
    Cardinality({p \in Cells(g.size) :
                    /\ g.board[p] = player
                    /\ (IF player = PLAYER_RED THEN p[1] = 0 ELSE p[2] = 0)})
    + Cardinality({p \in Cells(g.size) :
                      /\ g.board[p] = player
                      /\ (IF player = PLAYER_RED THEN p[1] = g.size - 1
                          ELSE p[2] = g.size - 1)})

\* countVirtualConnections' count: the ordered pairs of distinct stones of the
\* player at most two rows and two columns apart that isVirtuallyConnected
\* accepts
countVirtualConnections(g, player) ==
    Cardinality({pair \in Cells(g.size) \X Cells(g.size) :
                    /\ g.board[pair[1]] = player
                    /\ g.board[pair[2]] = player
                    /\ pair[1] # pair[2]
                    /\ Abs(pair[2][1] - pair[1][1]) <= 2
                    /\ Abs(pair[2][2] - pair[1][2]) <= 2
                    /\ isVirtuallyConnected(g, pair[1], pair[2], player)})

\* evaluatePosition where radius = floor(size / 4) is at least 1, as the
\* terms of the fraction it stands for:
\*     1 / (2 * (1 + resistance)) + rest / over
\* where over = 40 * radius^2 * size^2 is the common denominator of
\* centerControl * 0.2, edgeConnection * 0.2 and virtualConnections * 0.1,
\* and rest = control * size^2 + 4 * radius^2 * size * connections
\*            + 4 * radius^2 * count
evaluatePositionFraction(g, player) ==
    [resistance |-> calculateResistance(g, player),
     control |-> centerControlTwice(g, player),
     connections |-> edgeConnections(g, player),
     count |-> countVirtualConnections(g, player),
     radius |-> g.size \div 4,
     size |-> g.size]

fractionOver(a) == 40 * a.radius * a.radius * a.size * a.size

fractionRest(a) ==
    a.control * a.size * a.size
    + 4 * a.radius * a.radius * a.size * a.connections
    + 4 * a.radius * a.radius * a.count

\* a > b between two such fractions of one board size, cross-multiplied
fractionGreater(a, b) ==
    (fractionOver(a) + 2 * fractionRest(a) * (1 + a.resistance)) * (1 + b.resistance)
        > (fractionOver(b) + 2 * fractionRest(b) * (1 + b.resistance)) * (1 + a.resistance)

\* The doubles of two candidates compare as their fractions do when the
\* fractions differ, and are the same double when the four terms are the
\* same; two candidates with equal fractions made of different terms are
\* ordered by the rounding of the sum, which the fractions do not tell
orderIsExact(values) ==
    {pair \in (1..Len(values)) \X (1..Len(values)) :
        /\ ~fractionGreater(values[pair[1]], values[pair[2]])
        /\ ~fractionGreater(values[pair[2]], values[pair[1]])
        /\ values[pair[1]] # values[pair[2]]} = {}

\* The fractions of the positions with a stone of the side to move on each
\* move of a list, as a sequence
fractionsOf(g, moves) ==
    SubSeq([i \in 1..Len(moves) |->
               evaluatePositionFraction([g EXCEPT !.board[moves[i]] = g.currentPlayer],
                                        g.currentPlayer)],
           1, Len(moves))

\* The scores of a list of candidates as integers in the order of their
\* fractions: the number of candidates a candidate is greater than
rankedScores(values) ==
    SubSeq([i \in 1..Len(values) |->
               Cardinality({j \in 1..Len(values) : fractionGreater(values[i], values[j])})],
           1, Len(values))

----------------------------------------------------------------------------
(* HeuristicAI / HexHeuristicSearch: the bounded search                    *)

\* (playerScore - opponentScore) * 100 keeps a non-finite difference as it is
evaluate(g, player) ==
    IF g.gameOver
    THEN IF g.winner = player THEN 1000
         ELSE IF g.winner = Other(player) THEN -1000
         ELSE 0
    ELSE jsSub(evaluatePosition(g, player), evaluatePosition(g, Other(player)))

\* The board with one cell overwritten: tempGame.board[r][c] = side
withStone(g, move, side) == [g EXCEPT !.board[move] = side]

\* scoredMoves.sort((a, b) => b.score - a.score), a stable sort: an item is
\* put after every item it does not have to precede (a NaN difference counts
\* as 0)
RECURSIVE sortByScore(_, _)
sortByScore(sorted, rest) ==
    IF rest = <<>> THEN sorted
    ELSE LET x == Head(rest)
             before == {k \in 1..Len(sorted) :
                           \A j \in k..Len(sorted) :
                               jsGt(jsSub(x.score, sorted[j].score), 0)}
             at == IF before = {} THEN Len(sorted) + 1
                   ELSE CHOOSE k \in before : \A j \in before : k <= j
         IN sortByScore(SubSeq(sorted, 1, at - 1) \o <<x>> \o SubSeq(sorted, at, Len(sorted)),
                        Tail(rest))

\* On the boards where evaluatePosition is finite the scores sorted are the
\* ranks of its fractions, which compare as the fractions do
orderMoves(g, beamWidth) ==
    LET moves == getValidMoves(g)
        scoredMoves ==
            IF g.size \div 4 = 0
            THEN [i \in 1..Len(moves) |->
                     [move |-> moves[i],
                      score |-> evaluatePosition(withStone(g, moves[i], g.currentPlayer),
                                                 g.currentPlayer)]]
            ELSE CHOOSE out \in
                     {SubSeq([i \in 1..Len(moves) |-> [move |-> moves[i], score |-> ranks[i]]],
                             1, Len(moves)) :
                         ranks \in {rankedScores(fractionsOf(g, moves))}} : TRUE
        sorted == sortByScore(<<>>, scoredMoves)
        width == IF beamWidth >= 1 THEN beamWidth ELSE 1
        limited == SubSeq(sorted, 1, IF Len(sorted) < width THEN Len(sorted) ELSE width)
    IN [i \in 1..Len(limited) |-> limited[i].move]

getCacheKey(g, depth, player) == <<g.board, g.currentPlayer, player, depth>>

cacheSet(cache, key, entry) ==
    [k \in (DOMAIN cache) \cup {key} |-> IF k = key THEN entry ELSE cache[k]]

\* negamax returns [score, move, cache]: its result and the memo table after
\* the call. negamaxLoop is its for loop over orderedMoves. The result of a
\* recursive call is bound as the member of a singleton, so that it is
\* computed once.
RECURSIVE negamax(_, _, _, _, _, _, _)
RECURSIVE negamaxLoop(_, _, _, _, _, _, _, _, _, _)
negamaxLoop(cache, g, depth, alpha, beta, player, beamWidth, moves, bestScore, bestMove) ==
    IF moves = <<>> THEN [score |-> bestScore, move |-> bestMove, cache |-> cache]
    ELSE LET move == Head(moves)
             child == makeMove(g, move[1], move[2]).game
             afterChild(next) ==
                 LET score == jsNeg(next.score)
                     better == jsGt(score, bestScore)
                     newBest == IF better THEN score ELSE bestScore
                     newMove == IF better THEN move ELSE bestMove
                     newAlpha == jsMax(alpha, score)
                 IN IF jsGe(newAlpha, beta)
                    THEN [score |-> newBest, move |-> newMove, cache |-> next.cache]
                    ELSE negamaxLoop(next.cache, g, depth, newAlpha, beta, player,
                                     beamWidth, Tail(moves), newBest, newMove)
         IN CHOOSE out \in {afterChild(next) :
                               next \in {negamax(cache, child, depth - 1, jsNeg(beta),
                                                 jsNeg(alpha), player, beamWidth)}} : TRUE

negamax(cache, g, depth, alpha, beta, player, beamWidth) ==
    LET cacheKey == getCacheKey(g, depth, player)
        leaf(terminalScore) ==
            [score |-> terminalScore, move |-> NullMove,
             cache |-> cacheSet(cache, cacheKey,
                                [depth |-> depth, score |-> terminalScore, move |-> NullMove])]
        inner(r) ==
            [score |-> r.score, move |-> r.move,
             cache |-> cacheSet(r.cache, cacheKey,
                                [depth |-> depth, score |-> r.score, move |-> r.move])]
        search(orderedMoves) ==
            IF orderedMoves = <<>>
            THEN leaf(evaluate(g, player))
            ELSE CHOOSE out \in {inner(r) :
                                    r \in {negamaxLoop(cache, g, depth, alpha, beta, player,
                                                       beamWidth, orderedMoves, NegInf,
                                                       NullMove)}} : TRUE
    IN IF cacheKey \in DOMAIN cache /\ cache[cacheKey].depth >= depth
       THEN [score |-> cache[cacheKey].score, move |-> cache[cacheKey].move, cache |-> cache]
       ELSE IF depth = 0 \/ g.gameOver
       THEN leaf(evaluate(g, player))
       ELSE CHOOSE out \in {search(orderedMoves) :
                               orderedMoves \in {orderMoves(g, beamWidth)}} : TRUE

\* The memo table of a strategy instance that has no entry for the stone
\* count searched: the key holds the remaining depth, so entries written by
\* searches of earlier positions of the same game are never matched
EmptyCache == [k \in {} |-> 0]

\* The first move of the list that wins at once for the side to move
firstWinningMove(g, moves) ==
    LET wins(m) == LET t == makeMove(g, m[1], m[2]).game
                   IN t.gameOver /\ t.winner = g.currentPlayer
        hits == SelectSeq(moves, wins)
    IN IF hits = <<>> THEN NullMove ELSE hits[1]

\* The moves of the list on which an opponent stone would win for the opponent
threatMoves(g, moves) ==
    LET opponent == Other(g.currentPlayer)
    IN SelectSeq(moves, LAMBDA m : checkWin(withStone(g, m, opponent), opponent))

findCriticalMove_WinOnly(g) ==
    firstWinningMove(g, getValidMoves(g))

\* HeuristicAI.findCriticalMove
findCriticalMove(g) ==
    LET moves == getValidMoves(g)
        win == firstWinningMove(g, moves)
        threats == threatMoves(g, moves)
    IN IF win # NullMove THEN win
       ELSE IF Len(threats) = 1 THEN threats[1]
       ELSE NullMove

\* HeuristicAI.getMove: [path, move, score]
heuristicGetMove(g, maxDepth, beamWidth, aiPlayer) ==
    LET criticalMove == findCriticalMove(g) IN
    IF criticalMove # NullMove
    THEN [path |-> "critical", move |-> criticalMove, score |-> 0]
    ELSE CHOOSE out \in {[path |-> "search", move |-> result.move, score |-> result.score] :
                            result \in {negamax(EmptyCache, g, maxDepth, NegInf, PosInf,
                                                aiPlayer, beamWidth)}} : TRUE

\* HexHeuristicSearch.getBestMove: negamax on a copy, no tactical check
searchGetBestMove(g, player, maxDepth, beamWidth) ==
    CHOOSE out \in {[path |-> "search", move |-> result.move, score |-> result.score] :
                       result \in {negamax(EmptyCache, g, maxDepth, NegInf, PosInf,
                                           player, beamWidth)}} : TRUE

\* The difficulty presets of HeuristicAI.metadata
HeuristicPresets ==
    {[maxDepth |-> 3, beamWidth |-> 8],
     [maxDepth |-> 4, beamWidth |-> 10],
     [maxDepth |-> 6, beamWidth |-> 12]}


----------------------------------------------------------------------------
(* HexOpeningBook: the set of moves a lookup can return, {NullMove} for null *)


getOpening7x7(g) ==
    IF g.moveCount = 0
    THEN {<<2, 3>>, <<3, 2>>, <<3, 4>>, <<4, 3>>, <<2, 2>>, <<2, 4>>, <<4, 2>>, <<4, 4>>}
    ELSE IF g.moveCount = 1 /\ g.currentPlayer = PLAYER_BLUE
    THEN LET row == g.history[1].row
             col == g.history[1].col
             adjacent == {p \in Range(getNeighbors(g, row, col)) : isValidMove(g, p[1], p[2])}
             near == {p \in Cells(g.size) :
                         /\ Abs(p[1] - row) <= 2 /\ Abs(p[2] - col) <= 2
                         /\ isValidMove(g, p[1], p[2])
                         /\ Abs(p[1] - 3) + Abs(p[2] - 3) <= 2}
         IN IF adjacent \cup near # {} THEN adjacent \cup near ELSE {NullMove}
    ELSE {NullMove}

getOpening11x11(g) ==
    IF g.moveCount = 0
    THEN {<<4, 5>>, <<5, 4>>, <<5, 6>>, <<6, 5>>, <<4, 4>>, <<4, 6>>,
          <<6, 4>>, <<6, 6>>, <<3, 5>>, <<5, 3>>, <<5, 7>>, <<7, 5>>}
    ELSE {NullMove}

getOpening13x13(g) ==
    IF g.moveCount = 0
    THEN {<<5, 6>>, <<6, 5>>, <<6, 7>>, <<7, 6>>, <<5, 5>>, <<5, 7>>, <<7, 5>>, <<7, 7>>}
    ELSE {NullMove}

\* getDefaultOpening without the isValidMove test on its candidates
getDefaultOpening_NoValidCheck(g) ==
    LET center == g.size \div 2
        offset == IF g.size \div 6 = 0 THEN 1 ELSE g.size \div 6
        candidates == {p \in Cells(g.size) :
                          /\ Abs(p[1] - center) <= offset /\ Abs(p[2] - center) <= offset
                          /\ p # <<center, center>>}
    IN IF candidates # {} THEN candidates ELSE {NullMove}

getDefaultOpening(g) ==
    LET center == g.size \div 2
        offset == IF g.size \div 6 = 0 THEN 1 ELSE g.size \div 6
        candidates == {p \in Cells(g.size) :
                          /\ Abs(p[1] - center) <= offset /\ Abs(p[2] - center) <= offset
                          /\ p # <<center, center>>
                          /\ isValidMove(g, p[1], p[2])}
    IN IF candidates # {} THEN candidates ELSE {NullMove}

getOpeningMove(g) ==
    IF g.moveCount > 4 THEN {NullMove}
    ELSE IF g.size = 7 THEN getOpening7x7(g)
    ELSE IF g.size = 11 THEN getOpening11x11(g)
    ELSE IF g.size = 13 THEN getOpening13x13(g)
    ELSE getDefaultOpening(g)

----------------------------------------------------------------------------
(* MCTSAI: what getBestMove does before it builds a search tree            *)

\* The first move1 after which two different second stones of the same
\* colour complete a connection
findTwoMoveWin(g, player) ==
    LET moves == getValidMoves(g)
        followUps(m1) == LET g1 == withStone(g, m1, player)
                         IN {m2 \in Range(getValidMoves(g1)) :
                                checkWin(withStone(g1, m2, player), player)}
        hits == SelectSeq(moves, LAMBDA m1 : Cardinality(followUps(m1)) >= 2)
    IN IF hits = <<>> THEN NullMove ELSE hits[1]

bridgePatterns ==
    {[stone1 |-> <<-1, -1>>, stone2 |-> <<1, 1>>, bridge1 |-> <<0, -1>>, bridge2 |-> <<1, 0>>],
     [stone1 |-> <<-1, 0>>, stone2 |-> <<1, -1>>, bridge1 |-> <<0, -1>>, bridge2 |-> <<-1, -1>>],
     [stone1 |-> <<-1, 1>>, stone2 |-> <<0, -1>>, bridge1 |-> <<-1, 0>>, bridge2 |-> <<0, 0>>],
     [stone1 |-> <<0, 1>>, stone2 |-> <<1, -1>>, bridge1 |-> <<1, 0>>, bridge2 |-> <<0, 0>>],
     [stone1 |-> <<1, 0>>, stone2 |-> <<-1, 1>>, bridge1 |-> <<0, 1>>, bridge2 |-> <<0, 0>>],
     [stone1 |-> <<0, -1>>, stone2 |-> <<-1, 1>>, bridge1 |-> <<-1, 0>>, bridge2 |-> <<0, 0>>]}

findVirtualConnectionThreat(g) ==
    LET opponent == Other(g.currentPlayer)
        at(m, d) == <<m[1] + d[1], m[2] + d[2]>>
        threat(m, pat) ==
            /\ {at(m, pat.stone1), at(m, pat.stone2), at(m, pat.bridge1), at(m, pat.bridge2)}
                   \subseteq Cells(g.size)
            /\ g.board[at(m, pat.stone1)] = opponent
            /\ g.board[at(m, pat.stone2)] = opponent
            /\ g.board[at(m, pat.bridge1)] = EMPTY
            /\ g.board[at(m, pat.bridge2)] = EMPTY
        hits == SelectSeq(getValidMoves(g),
                          LAMBDA m : Cardinality({pat \in bridgePatterns : threat(m, pat)}) >= 2)
    IN IF hits = <<>> THEN NullMove ELSE hits[1]

\* MCTSAI.findCriticalMove
mctsFindCriticalMove(g) ==
    LET moves == getValidMoves(g)
        win == firstWinningMove(g, moves)
        immediateThreats == threatMoves(g, moves)
        winningMove == IF Len(moves) <= 20 THEN findTwoMoveWin(g, g.currentPlayer)
                       ELSE NullMove
        blockingMove == IF Len(moves) <= 20 THEN findTwoMoveWin(g, Other(g.currentPlayer))
                        ELSE NullMove
    IN IF win # NullMove THEN win
       ELSE IF Len(immediateThreats) >= 1 THEN immediateThreats[1]
       ELSE IF winningMove # NullMove THEN winningMove
       ELSE IF blockingMove # NullMove THEN blockingMove
       ELSE findVirtualConnectionThreat(g)

shouldUseHeuristicSearch(g, label) ==
    LET remaining == Len(getValidMoves(g))
        hardMode == label = "hard"
        mediumMode == label = "medium"
    IN \/ remaining <= 15
       \/ g.size <= 7 /\ remaining <= 25
       \/ g.size <= 11 /\ (mediumMode \/ hardMode) /\ remaining <= 35
       \/ hardMode /\ remaining <= 40

getHeuristicConfig(g, label) ==
    LET remaining == Len(getValidMoves(g))
        hardMode == label = "hard"
        cfg(hardDepth, depth, beam) ==
            [maxDepth |-> IF hardMode THEN hardDepth ELSE depth, beamWidth |-> beam]
    IN IF g.size <= 7
       THEN IF remaining > 30 THEN cfg(5, 4, 12)
            ELSE IF remaining > 20 THEN cfg(6, 5, 10)
            ELSE IF remaining > 10 THEN cfg(8, 6, 8)
            ELSE cfg(10, 8, 6)
       ELSE IF g.size <= 11
       THEN IF remaining <= 15 THEN cfg(7, 5, 7)
            ELSE IF remaining <= 25 THEN cfg(5, 4, 8)
            ELSE cfg(4, 4, 10)
       ELSE IF remaining <= 12 THEN cfg(6, 5, 6)
            ELSE cfg(4, 4, 8)

\* A tree search whose first iteration does not expand the root
treeSearch_NoFirstExpansion(g) == {[path |-> "throw", move |-> NullMove]}

\* The tree search of MCTSAI.getBestMove with simulations >= 1. The first
\* iteration expands the root unless the root is terminal or has no untried
\* move; every child of the root carries one of the root's untried moves,
\* and which of them has the best statistics depends on the playouts: any of
\* them can be the answer. Without a child, root.children[0] is undefined and
\* bestChild.visits throws.
treeSearch(g) ==
    IF g.gameOver \/ getValidMoves(g) = <<>>
    THEN {[path |-> "throw", move |-> NullMove]}
    ELSE {[path |-> "tree", move |-> m] : m \in Range(getValidMoves(g))}

\* The scores of HexEvaluator are computed on the boards of size 3 or less
\* with at most MaxSearchEmpty empty cells
evaluatorModelled(g) == g.size \div 4 = 0 /\ Len(getValidMoves(g)) <= MaxSearchEmpty

\* The moves HexHeuristicSearch.getBestMove can return on an in-progress
\* board whatever the scores are: negamax at the root starts from bestMove =
\* null and replaces it only by one of the ordered valid moves
searchRootMoves(g) ==
    IF g.gameOver THEN {NullMove} ELSE {NullMove} \cup Range(getValidMoves(g))

\* MCTSAI.getBestMove: the set of [path, move] it can end with
getBestMove(g, aiPlayer, label) ==
    LET book == getOpeningMove(g)
        criticalMove == mctsFindCriticalMove(g)
        heuristicConfig == getHeuristicConfig(g, label)
        afterSearch(heuristicMove) ==
            IF heuristicMove # NullMove THEN {[path |-> "heuristic", move |-> heuristicMove]}
            ELSE treeSearch(g)
    IN IF book # {NullMove} THEN {[path |-> "book", move |-> m] : m \in book}
       ELSE IF criticalMove # NullMove THEN {[path |-> "critical", move |-> criticalMove]}
       ELSE IF shouldUseHeuristicSearch(g, label)
       THEN UNION {afterSearch(heuristicMove) :
                      heuristicMove \in
                          IF evaluatorModelled(g)
                          THEN {searchGetBestMove(g, aiPlayer,
                                                  heuristicConfig.maxDepth,
                                                  heuristicConfig.beamWidth).move}
                          ELSE searchRootMoves(g)}
       ELSE afterSearch(NullMove)

DifficultyLabels == {"easy", "medium", "hard"}

----------------------------------------------------------------------------
(* AdvancedHexAI.getMove and RandomAI.getMove: the set of [path, move] a    *)
(* call can end with                                                        *)

\* The winners the playouts from a position can end with: a playout fills
\* empty cells for the two sides in turn until one of them connects its edges
RECURSIVE playoutWinners(_, _)
playoutWinners(g, side) ==
    IF checkWin(g, PLAYER_RED) THEN {PLAYER_RED}
    ELSE IF checkWin(g, PLAYER_BLUE) THEN {PLAYER_BLUE}
    ELSE UNION {playoutWinners(withStone(g, p, side), Other(side)) :
                    p \in {q \in Cells(g.size) : g.board[q] = EMPTY}}

\* The children of the root that getBestChild can return after at least one
\* batch. A child is visited when its score (1 - beta) * winRate +
\* beta * raveRate + 0.8 * sqrt(ln(total) / visits) is the first highest one.
\* When every playout below every child is won by the side to move, every
\* rate is 1, the least visited child is selected, the first one on a tie,
\* and after any multiple of 100 simulations the first child has the most
\* visits. When some child wins all its playouts, a child that loses all of
\* them is never visited as often. Elsewhere the visits depend on the random
\* playouts and any child can be the answer.
mostVisited(g, children) ==
    LET mover == g.currentPlayer
        winnersOf == [m \in Range(children) |->
                        playoutWinners(withStone(g, m, mover), Other(mover))]
        sure == {m \in Range(children) : winnersOf[m] = {mover}}
        lost == {m \in Range(children) : winnersOf[m] = {Other(mover)}}
    IN IF Len(children) > MaxSearchEmpty THEN Range(children)
       ELSE IF sure = Range(children) THEN {children[1]}
       ELSE IF sure # {} THEN Range(children) \ lost
       ELSE Range(children)

\* batches is the number of batches of 100 simulations that fit before the
\* deadline. The children of the root are the valid moves of the FastHexGame
\* in row-major order; getBestChild returns the first child with the most
\* visits, which is the first child when no simulation ran.
advancedGetMove(g, batches) ==
    LET fastGame == NewFastHexGame(g)
        children == IF getWinner(fastGame).ret # 0 THEN <<>>
                    ELSE fastGetValidMoves(fastGame)
        valid == getValidMoves(g)
    IN IF children = <<>>
       THEN IF valid = <<>> THEN {[path |-> "fallback", move |-> UndefinedMove]}
            ELSE {[path |-> "fallback", move |-> m] : m \in Range(valid)}
       ELSE IF batches = 0 THEN {[path |-> "tree", move |-> children[1]]}
       ELSE {[path |-> "tree", move |-> m] : m \in mostVisited(g, children)}

\* RandomAI.getMove
randomGetMove(g, smartMode) ==
    LET validMoves == getValidMoves(g)
        win == firstWinningMove(g, validMoves)
        blockingMoves == threatMoves(g, validMoves)
        center == g.size \div 2
        filteredMoves == SelectSeq(validMoves, LAMBDA m : m # <<center, center>>)
        any(moves, path) == {[path |-> path, move |-> m] : m \in Range(moves)}
    IN IF validMoves = <<>> THEN {[path |-> "none", move |-> NullMove]}
       ELSE IF smartMode /\ win # NullMove THEN {[path |-> "win", move |-> win]}
       ELSE IF smartMode /\ blockingMoves # <<>> THEN any(blockingMoves, "block")
       ELSE IF smartMode /\ g.size = 7 /\ g.moveCount = 0 /\ filteredMoves # <<>>
       THEN any(filteredMoves, "random")
       ELSE any(validMoves, "random")

----------------------------------------------------------------------------
(* The caller's HexGame after a strategy worked on copies of it            *)

\* The fields fromState and copy() assign to a new HexGame(size)
rehydrate(state) ==
    [NewHexGame(state.size) EXCEPT !.board = state.board,
                                   !.currentPlayer = state.currentPlayer,
                                   !.moveCount = state.moveCount,
                                   !.gameOver = state.gameOver,
                                   !.winner = state.winner,
                                   !.swapAvailable = state.swapAvailable,
                                   !.history = state.history]

\* HexGame.copy(): the fields of the new game are those of the source; its
\* board rows are new arrays (map(row => [...row])) and its history is a new
\* array ([...this.history]), so neither is shared with the source
copy_SharedRows(g) == [game |-> g, sharesRows |-> TRUE, sharesHistory |-> FALSE]

copy(g) == [game |-> rehydrate(g), sharesRows |-> FALSE, sharesHistory |-> FALSE]

\* The game g after `testGame = g.copy(); testGame.board[r][c] = stone` for
\* each move of moves: a stone reaches g only through shared rows
stonesOnCopies(g, moves, stone) ==
    IF copy(g).sharesRows
    THEN [g EXCEPT !.board = [p \in Cells(g.size) |->
                                 IF p \in Range(moves) THEN stone ELSE g.board[p]]]
    ELSE g

\* The game g after `testGame = g.copy(); testGame.makeMove(r, c)` for each
\* move of moves: makeMove writes the stone, pushes on the history and sets
\* the fields of testGame
movesOnCopies(g, moves) ==
    LET stoned == stonesOnCopies(g, moves, g.currentPlayer)
    IN IF copy(g).sharesHistory
       THEN [stoned EXCEPT !.history =
                @ \o [i \in 1..Len(moves) |->
                         [row |-> moves[i][1], col |-> moves[i][2],
                          player |-> g.currentPlayer]]]
       ELSE stoned

\* The caller's game after the two loops of findCriticalMove (and of the smart
\* mode of RandomAI): the winning-move loop stops at the first winning move,
\* the threat loop runs when there is none
afterCriticalCheck(g) ==
    LET moves == getValidMoves(g)
        win == firstWinningMove(g, moves)
        tried == IF win = NullMove THEN moves
                 ELSE SubSeq(moves, 1, CHOOSE i \in 1..Len(moves) : moves[i] = win)
        afterWins == movesOnCopies(g, tried)
    IN IF win # NullMove THEN afterWins
       ELSE stonesOnCopies(afterWins, moves, Other(g.currentPlayer))

\* The caller's game after a search that starts from g.copy() and tries each
\* move on a copy of that copy (negamax and orderMoves, MCTSNode.expand and
\* simulate): a stone reaches the caller only when both copies share rows
afterSearchOnCopy(g) ==
    LET copiedGame == copy(g)
        child == copy(copiedGame.game)
    IN IF copiedGame.sharesRows /\ child.sharesRows /\ ~g.gameOver
       THEN stonesOnCopies(g, getValidMoves(g), g.currentPlayer)
       ELSE g

\* The caller's game after getMove, by the path the call took
afterHeuristicGetMove(g, path) ==
    IF path = "critical" THEN afterCriticalCheck(g)
    ELSE afterSearchOnCopy(afterCriticalCheck(g))

afterMctsGetBestMove(g, path) ==
    IF path = "book" THEN g
    ELSE IF path = "critical" THEN afterCriticalCheck(g)
    ELSE afterSearchOnCopy(afterCriticalCheck(g))

afterRandomGetMove(g, smartMode) ==
    IF smartMode /\ getValidMoves(g) # <<>> THEN afterCriticalCheck(g) ELSE g

----------------------------------------------------------------------------
(* The calls the host makes on its HexGame                                 *)

\* Coordinates tried on a board of size n: both edges and the centre (every
\* coordinate when n <= 3)
ProbeCoords(n) == {0, n \div 2, n - 1}

\* The cells makeMove is called with: the cells at those coordinates, and
\* cells past each of the four edges and past the far corner
Inputs(n) ==
    (ProbeCoords(n) \X ProbeCoords(n))
        \cup {<<-1, 0>>, <<n, 0>>, <<0, -1>>, <<0, n>>, <<n, n>>}

NoCall == [op |-> "none", row |-> 0, col |-> 0, ret |-> FALSE]

NoFast == [built |-> FALSE]

\* No worker and no page exist while a game or a strategy is called directly
NoProvider == [built |-> FALSE]
NoWorker == [built |-> FALSE]
NoLobby == [built |-> FALSE]
NoTree == [built |-> FALSE]
NoAnswer == [strategy |-> "none"]

InitGame ==
    /\ \E n \in GameSizes : game = NewHexGame(n)
    /\ last = NoCall
    /\ swapDone = FALSE
    /\ fast = NoFast
    /\ ai = NoAnswer
    /\ provider = NoProvider /\ worker = NoWorker /\ lobby = NoLobby /\ tree = NoTree

\* game.makeMove(row, col)
MakeMove(row, col) ==
    LET res == makeMove(game, row, col) IN
    /\ res.game.moveCount <= MaxMoves
    /\ game' = res.game
    /\ last' = [op |-> "makeMove", row |-> row, col |-> col, ret |-> res.ret]
    /\ UNCHANGED <<hostVars, swapDone, fast, ai>>

\* game.swapSides()
SwapSides ==
    LET res == swapSides(game) IN
    /\ game' = res.game
    /\ last' = [op |-> "swapSides", row |-> 0, col |-> 0, ret |-> res.ret]
    /\ swapDone' = (swapDone \/ res.ret)
    /\ UNCHANGED <<hostVars, fast, ai>>

NextGame ==
    \/ \E p \in Inputs(game.size) : MakeMove(p[1], p[2])
    \/ SwapSides

SpecGame == InitGame /\ [][NextGame]_vars


----------------------------------------------------------------------------
(* The optimized search's use of its FastHexGame                           *)

\* The cells the host's stones are put on before a search under SpecFast:
\* the top-left 2x2 corner (the whole board when n <= 2)
SnapshotCells(n) == {p \in Cells(n) : p[1] <= 1 /\ p[2] <= 1}

InitFast ==
    /\ \E n \in FastSizes : game = NewHexGame(n)
    /\ last = NoCall
    /\ swapDone = FALSE
    /\ fast = NoFast
    /\ ai = NoAnswer
    /\ provider = NoProvider /\ worker = NoWorker /\ lobby = NoLobby /\ tree = NoTree

\* A legal move of the game, before the search starts
PlayMove(row, col) ==
    /\ ~fast.built
    /\ makeMove(game, row, col).ret
    /\ MakeMove(row, col)

\* AdvancedHexAI.getMove: new FastHexGame(game), then expand(root), whose
\* getWinner() call compresses paths
FastNew ==
    /\ ~fast.built
    /\ Len(getValidMoves(game)) <= MaxEmpty
    /\ fast' = getWinner(NewFastHexGame(game)).fast
    /\ last' = [op |-> "fastNew", row |-> 0, col |-> 0, ret |-> TRUE]
    /\ UNCHANGED <<hostVars, game, swapDone, ai>>

\* select(): one step down the tree, to a child of an expanded node that
\* is not terminal: fastGame.makeMove(child.move)
FastMakeMove(row, col) ==
    /\ fast.built /\ fast.pc = "select"
    /\ getWinner(fast).ret = 0
    /\ <<row, col>> \in Range(fastGetValidMoves(fast))
    /\ fast' = fastMakeMove(fast, row, col)
    /\ last' = [op |-> "fastMakeMove", row |-> row, col |-> col, ret |-> TRUE]
    /\ UNCHANGED <<hostVars, game, swapDone, ai>>

\* runSimulation after select(): getWinner(), and with no winner expand()
\* (getWinner() again) and the start of the playout
FastSimulate ==
    /\ fast.built /\ fast.pc = "select"
    /\ LET w == getWinner(fast) IN
       /\ fast' = [w.fast EXCEPT !.pc = IF w.ret = 0 THEN "playout" ELSE "done",
                                 !.ret = w.ret]
       /\ last' = [op |-> "simulate", row |-> 0, col |-> 0, ret |-> (w.ret # 0)]
    /\ UNCHANGED <<hostVars, game, swapDone, ai>>

\* One turn of the while (true) loop of playoutSmart
PlayoutStep ==
    /\ fast.built /\ fast.pc = "playout"
    /\ LET w == getWinner(fast) IN
       IF w.ret # 0
       THEN /\ fast' = [w.fast EXCEPT !.pc = "done", !.ret = w.ret]
            /\ last' = [op |-> "playoutReturn", row |-> 0, col |-> 0, ret |-> TRUE]
       ELSE IF w.fast.emptyCells = <<>>
       THEN /\ fast' = [w.fast EXCEPT !.pc = "done", !.ret = 0]
            /\ last' = [op |-> "playoutReturn", row |-> 0, col |-> 0, ret |-> FALSE]
       ELSE LET save == bridgeSave(w.fast) IN
            \E idx \in (IF save # -1 THEN {save} ELSE randomPicks(w.fast)) :
                /\ fast' = placeStone(w.fast, idx)
                /\ last' = [op |-> "playoutMove", row |-> idx \div fast.size,
                            col |-> idx % fast.size, ret |-> (save # -1)]
    /\ UNCHANGED <<hostVars, game, swapDone, ai>>

\* fastGame.reset() at the end of runSimulation
FastReset ==
    /\ fast.built /\ fast.pc = "done"
    /\ fast' = [reset(fast) EXCEPT !.pc = "select", !.ret = 0]
    /\ last' = [op |-> "reset", row |-> 0, col |-> 0, ret |-> TRUE]
    /\ UNCHANGED <<hostVars, game, swapDone, ai>>

NextFast ==
    \/ \E p \in SnapshotCells(game.size) : PlayMove(p[1], p[2])
    \/ FastNew
    \/ \E p \in Cells(game.size) : FastMakeMove(p[1], p[2])
    \/ FastSimulate
    \/ PlayoutStep
    \/ FastReset

SpecFast == InitFast /\ [][NextFast]_vars


----------------------------------------------------------------------------
(* The strategies asked for a move on a game in any position               *)

\* The cells the two players use before the strategy is asked: the two top
\* rows less a corner and the opposite corner on a board of size 3, a corner,
\* the centre and two of its neighbours on a larger board
SearchCells(n) ==
    IF n <= 2 THEN Cells(n)
    ELSE IF n = 3 THEN {<<0, 1>>, <<0, 2>>, <<1, 0>>, <<1, 1>>, <<1, 2>>, <<2, 2>>}
    ELSE IF n = 4 THEN {<<0, 0>>, <<0, 3>>, <<3, 0>>, <<3, 3>>, <<1, 2>>}
    ELSE {<<0, 0>>, <<n \div 2, n \div 2>>, <<n \div 2 - 1, n \div 2>>,
          <<n \div 2, n \div 2 + 1>>}

\* The options MCTSAI hands to HexHeuristicSearch.getBestMove on a board of
\* size 7 or less with at most 10 empty cells (getHeuristicConfig)
SearchOptions ==
    {[maxDepth |-> 8, beamWidth |-> 6], [maxDepth |-> 10, beamWidth |-> 6]}

\* The bounded search is run where HexEvaluator is modelled, on at most
\* MaxSearchEmpty empty cells
SearchModelled(g) == evaluatorModelled(g)

InitSearch ==
    /\ \E n \in SearchSizes \cup BookSizes : game = NewHexGame(n)
    /\ last = NoCall
    /\ swapDone = FALSE
    /\ fast = NoFast
    /\ ai = NoAnswer
    /\ provider = NoProvider /\ worker = NoWorker /\ lobby = NoLobby /\ tree = NoTree

\* A legal move of the game, before a strategy is asked
SearchPlay(row, col) ==
    LET res == makeMove(game, row, col) IN
    /\ ai.strategy = "none"
    /\ res.ret
    /\ res.game.moveCount <= MaxSearchMoves
    /\ game' = res.game
    /\ last' = [op |-> "makeMove", row |-> row, col |-> col, ret |-> res.ret]
    /\ UNCHANGED <<hostVars, swapDone, fast, ai>>

\* new HeuristicAI(preset); setPlayer(player); getMove(game)
HeuristicGetMove(preset, player) ==
    /\ ai.strategy = "none" /\ game.size \in SearchSizes
    /\ SearchModelled(game)
    /\ \E r \in {heuristicGetMove(game, preset.maxDepth, preset.beamWidth, player)} :
           ai' = [strategy |-> "heuristic", path |-> r.path, move |-> r.move,
                  score |-> r.score, maxDepth |-> preset.maxDepth,
                  beamWidth |-> preset.beamWidth, player |-> player]
    /\ last' = [op |-> "heuristicGetMove", row |-> 0, col |-> 0, ret |-> TRUE]
    /\ game' = afterHeuristicGetMove(game, ai'.path)
    /\ UNCHANGED <<hostVars, swapDone, fast>>

\* new HexHeuristicSearch().negamax(game.copy(), depth, -Infinity, Infinity,
\* player, beam), the body of getBestMove(game, player, options)
NegamaxSearch(options, player) ==
    /\ ai.strategy = "none" /\ game.size \in SearchSizes
    /\ SearchModelled(game)
    /\ \E r \in {searchGetBestMove(game, player, options.maxDepth, options.beamWidth)} :
           ai' = [strategy |-> "negamax", path |-> r.path, move |-> r.move,
                  score |-> r.score, maxDepth |-> options.maxDepth,
                  beamWidth |-> options.beamWidth, player |-> player]
    /\ last' = [op |-> "negamax", row |-> 0, col |-> 0, ret |-> TRUE]
    /\ game' = afterSearchOnCopy(game)
    /\ UNCHANGED <<hostVars, swapDone, fast>>

\* new MCTSAI({label}); setPlayer(player); getBestMove(game)
MctsGetBestMove(label, player) ==
    /\ ai.strategy = "none" /\ game.size \in SearchSizes
    /\ \E r \in getBestMove(game, player, label) :
           ai' = [strategy |-> "mcts", path |-> r.path, move |-> r.move,
                  label |-> label, player |-> player]
    /\ last' = [op |-> "mctsGetBestMove", row |-> 0, col |-> 0, ret |-> TRUE]
    /\ game' = afterMctsGetBestMove(game, ai'.path)
    /\ UNCHANGED <<hostVars, swapDone, fast>>

\* new AdvancedHexAI(config); getMove(game), the deadline passing after
\* `batches` batches of simulations
AdvancedGetMove(batches) ==
    /\ ai.strategy = "none" /\ game.size \in SearchSizes
    /\ \E r \in advancedGetMove(game, batches) :
           ai' = [strategy |-> "advanced", path |-> r.path, move |-> r.move,
                  batches |-> batches]
    /\ last' = [op |-> "advancedGetMove", row |-> 0, col |-> 0, ret |-> TRUE]
    /\ UNCHANGED <<hostVars, game, swapDone, fast>>

\* new RandomAI({smartMode}); getMove(game)
RandomGetMove(smartMode) ==
    /\ ai.strategy = "none" /\ game.size \in SearchSizes
    /\ \E r \in randomGetMove(game, smartMode) :
           ai' = [strategy |-> "random", path |-> r.path, move |-> r.move,
                  smartMode |-> smartMode]
    /\ last' = [op |-> "randomGetMove", row |-> 0, col |-> 0, ret |-> TRUE]
    /\ game' = afterRandomGetMove(game, smartMode)
    /\ UNCHANGED <<hostVars, swapDone, fast>>

\* HexOpeningBook.getOpeningMove(game)
BookLookup ==
    /\ ai.strategy = "none"
    /\ \E m \in getOpeningMove(game) :
           ai' = [strategy |-> "book", path |-> "book", move |-> m]
    /\ last' = [op |-> "getOpeningMove", row |-> 0, col |-> 0, ret |-> TRUE]
    /\ UNCHANGED <<hostVars, game, swapDone, fast>>

\* The host asks a strategy when it is the turn of the side the strategy
\* plays: the player handed to it is the side to move
NextSearch ==
    \/ \E p \in SearchCells(game.size) : SearchPlay(p[1], p[2])
    \/ \E preset \in HeuristicPresets : HeuristicGetMove(preset, game.currentPlayer)
    \/ \E options \in SearchOptions : NegamaxSearch(options, game.currentPlayer)
    \/ \E label \in DifficultyLabels : MctsGetBestMove(label, game.currentPlayer)
    \/ \E batches \in 0..MaxBatches : AdvancedGetMove(batches)
    \/ \E smartMode \in BOOLEAN : RandomGetMove(smartMode)
    \/ BookLookup

SpecSearch == InitSearch /\ [][NextSearch]_vars

----------------------------------------------------------------------------
(* AIProvider (aiprovider.js) and the worker that owns it                  *)

\* The ids initializeAIs registers in the worker: RandomAI is commented out
RegisteredAIs == {"advanced-hex", "mcts", "heuristic"}

\* The own keys of metadata.difficulties of a registered strategy
DifficultyKeys(aiId) ==
    IF aiId = "advanced-hex" THEN {"easy", "medium", "hard", "extreme"}
    ELSE {"easy", "medium", "hard"}

\* Names a plain object inherits from Object.prototype
ObjectPrototypeKeys == {"constructor", "toString"}

\* ai.metadata.difficulties[difficulty]: the difficulty record for an own
\* key, a function of Object.prototype (truthy, with no config) for an
\* inherited name, undefined otherwise
difficultyLookup(aiId, difficulty) ==
    IF difficulty \in DifficultyKeys(aiId) THEN "difficulty"
    ELSE IF difficulty \in ObjectPrototypeKeys THEN "inherited"
    ELSE "undefined"

NoInstance == [id |-> "none"]

\* new ai.class(difficultyConfig.config, gameState): AdvancedHexAI reads
\* config.timeLimit and throws on an undefined config; MCTSAI and HeuristicAI
\* default an undefined config to {} and fall back to their medium settings
newInstance(aiId, difficulty, found) ==
    IF aiId = "advanced-hex" /\ found = "inherited"
    THEN [thrown |-> "TypeError", instance |-> NoInstance]
    ELSE [thrown |-> "none",
          instance |-> [id |-> aiId,
                        config |-> IF found = "difficulty" THEN difficulty ELSE "medium",
                        player |-> NULL]]

\* AIProvider.createAI: [thrown, constructorCalled, provider, instance]
createAI(p, aiId, difficulty) ==
    IF aiId \notin RegisteredAIs
    THEN [thrown |-> "AI not found", constructorCalled |-> FALSE,
          provider |-> p, instance |-> NoInstance]
    ELSE LET difficultyConfig == difficultyLookup(aiId, difficulty)
             aiInstance == newInstance(aiId, difficulty, difficultyConfig)
         IN IF difficultyConfig = "undefined"
            THEN [thrown |-> "Difficulty not found", constructorCalled |-> FALSE,
                  provider |-> p, instance |-> NoInstance]
            ELSE IF aiInstance.thrown # "none"
            THEN [thrown |-> aiInstance.thrown, constructorCalled |-> TRUE,
                  provider |-> p, instance |-> NoInstance]
            ELSE [thrown |-> "none", constructorCalled |-> TRUE,
                  provider |-> [p EXCEPT !.currentAI =
                                   [id |-> aiId, difficulty |-> difficulty]],
                  instance |-> aiInstance.instance]

\* fromState with game.history = state.history in place of the spread
fromState_SharedHistory(state) ==
    [thrown |-> "none", game |-> rehydrate(state),
     sharesRows |-> FALSE, sharesHistory |-> TRUE]

\* HexGame.fromState(state): state.board.map throws on a snapshot with no
\* board. The rows of the new board are new arrays (map(row => [...row]))
\* and the history is a new array ([...state.history]).
fromState(state) ==
    IF "board" \in DOMAIN state
    THEN [thrown |-> "none", game |-> rehydrate(state),
          sharesRows |-> FALSE, sharesHistory |-> FALSE]
    ELSE [thrown |-> "TypeError", game |-> state,
          sharesRows |-> FALSE, sharesHistory |-> FALSE]

\* The settings a difficulty key stands for
presetOf(config) ==
    IF config = "easy" THEN [maxDepth |-> 3, beamWidth |-> 8]
    ELSE IF config = "hard" THEN [maxDepth |-> 6, beamWidth |-> 12]
    ELSE [maxDepth |-> 4, beamWidth |-> 10]

labelOf(config) == IF config \in DifficultyLabels THEN config ELSE "medium"

\* currentAI.getMove(game, currentDifficulty): the set of [path, move] the
\* call can end with, path "throw" for a call that throws
instanceGetMove(instance, g) ==
    IF instance.id = "mcts"
    THEN getBestMove(g, instance.player, labelOf(instance.config))
    ELSE IF instance.id = "heuristic"
    THEN {[path |-> r.path, move |-> r.move] :
             r \in {heuristicGetMove(g, presetOf(instance.config).maxDepth,
                                     presetOf(instance.config).beamWidth,
                                     instance.player)}}
    ELSE UNION {advancedGetMove(g, batches) : batches \in 0..MaxBatches}

\* A response posted to the page
Response(type, value) == [type |-> type, value |-> value]

\* initAI(aiId, difficulty, player)
initAI(w, p, aiId, difficulty, player) ==
    LET w1 == [w EXCEPT !.currentDifficulty = difficulty, !.currentAIPlayer = player]
        res == createAI(p, aiId, difficulty)
    IN IF res.thrown = "none"
       THEN [worker |-> [w1 EXCEPT !.currentAI = [res.instance EXCEPT !.player = player],
                                  !.posted = <<Response("initComplete", "success")>>,
                                  !.constructorCalled = res.constructorCalled],
             provider |-> res.provider]
       ELSE [worker |-> [w1 EXCEPT !.posted = <<Response("error", res.thrown)>>,
                                  !.constructorCalled = res.constructorCalled],
             provider |-> p]

\* makeMove(gameState) with its try block left out: what the strategy throws
\* leaves the handler
workerMakeMove_NoCatch(w, gameState) ==
    IF w.currentAI = NoInstance
    THEN {[w EXCEPT !.posted = <<Response("error", "AI not initialized")>>]}
    ELSE LET rehydrated == fromState(gameState)
             instance == [w.currentAI EXCEPT !.player = w.currentAIPlayer]
         IN IF rehydrated.thrown # "none" THEN {[w EXCEPT !.escaped = TRUE]}
            ELSE {IF r.path = "throw"
                  THEN [w EXCEPT !.currentAI = instance, !.escaped = TRUE]
                  ELSE [w EXCEPT !.currentAI = instance,
                                 !.posted = <<Response("move", r.move)>>] :
                     r \in instanceGetMove(instance, rehydrated.game)}

\* makeMove(gameState): the set of states of the worker the call can end in
workerMakeMove(w, gameState) ==
    IF w.currentAI = NoInstance
    THEN {[w EXCEPT !.posted = <<Response("error", "AI not initialized")>>]}
    ELSE LET rehydrated == fromState(gameState)
             instance == [w.currentAI EXCEPT !.player = w.currentAIPlayer]
         IN IF rehydrated.thrown # "none"
            THEN {[w EXCEPT !.posted = <<Response("error", rehydrated.thrown)>>]}
            ELSE {IF r.path = "throw"
                  THEN [w EXCEPT !.currentAI = instance,
                                 !.posted = <<Response("error", "TypeError")>>]
                  ELSE [w EXCEPT !.currentAI = instance,
                                 !.posted = <<Response("move", r.move)>>] :
                     r \in instanceGetMove(instance, rehydrated.game)}

\* getScores(gameState): only AdvancedHexAI has getNormalizedScores
workerGetScores(w) ==
    IF w.currentAI = NoInstance \/ w.currentAI.id # "advanced-hex"
    THEN [w EXCEPT !.posted = <<Response("scores", "null")>>]
    ELSE [w EXCEPT !.posted = <<Response("scores", "lastScores")>>]

\* The worker after importScripts and aiProvider.initializeAIs()
\* currentAI of a provider that has created no strategy (null)
NoCurrentAI == [id |-> "null", difficulty |-> "null"]

NewProvider == [built |-> TRUE, currentAI |-> NoCurrentAI]

NewWorker ==
    [built |-> TRUE, currentAI |-> NoInstance, currentDifficulty |-> "medium",
     currentAIPlayer |-> PLAYER_BLUE, request |-> [type |-> "none"],
     posted |-> <<>>, escaped |-> FALSE, constructorCalled |-> FALSE]

\* The worker as a handler starts: nothing posted yet for this request
handling(w, request) ==
    [w EXCEPT !.request = request, !.posted = <<>>, !.escaped = FALSE,
              !.constructorCalled = FALSE]

----------------------------------------------------------------------------
(* The requests delivered to the worker, one handler run per step          *)

\* Strategy ids and difficulty keys of the init requests: registered and
\* unregistered ids, own, undefined and inherited keys
RequestAIs == RegisteredAIs \cup {"random"}
RequestDifficulties == {"easy", "extreme", "expert", "constructor"}

\* A snapshot with no board
BrokenSnapshot == [size |-> 2]

\* The gameState of a getMove request: the game of the page, or a snapshot
\* with no board
RequestSnapshots(g) == {g, BrokenSnapshot}

\* The worker after its script has run; the game of the page is a full 1x1
\* board or a 2x2 game in progress
InitWorker ==
    /\ \/ game = makeMove(NewHexGame(1), 0, 0).game
       \/ game = makeMove(makeMove(NewHexGame(2), 0, 0).game, 1, 1).game
    /\ last = NoCall
    /\ swapDone = FALSE
    /\ fast = NoFast
    /\ ai = NoAnswer
    /\ provider = NewProvider
    /\ worker = NewWorker
    /\ lobby = NoLobby
    /\ tree = NoTree

\* self.onmessage with { type: 'init', data: { aiId, difficulty, player } }
InitRequest(aiId, difficulty, player) ==
    LET request == [type |-> "init", aiId |-> aiId, difficulty |-> difficulty,
                    player |-> player]
        res == initAI(handling(worker, request), provider, aiId, difficulty, player)
    IN /\ worker' = res.worker
       /\ provider' = res.provider
       /\ last' = [op |-> "init", row |-> 0, col |-> 0, ret |-> TRUE]
       /\ UNCHANGED <<game, swapDone, fast, ai, lobby, tree>>

\* self.onmessage with { type: 'getMove', data: { gameState } }
GetMoveRequest ==
    \E gameState \in RequestSnapshots(game) :
        LET request == [type |-> "getMove", gameState |-> gameState] IN
        /\ worker' \in workerMakeMove(handling(worker, request), gameState)
        /\ last' = [op |-> "getMove", row |-> 0, col |-> 0, ret |-> TRUE]
        /\ UNCHANGED <<game, swapDone, fast, ai, provider, lobby, tree>>

\* self.onmessage with { type: 'getScores', data: { gameState } }
GetScoresRequest ==
    /\ worker' = workerGetScores(handling(worker, [type |-> "getScores"]))
    /\ last' = [op |-> "getScores", row |-> 0, col |-> 0, ret |-> TRUE]
    /\ UNCHANGED <<game, swapDone, fast, ai, provider, lobby, tree>>

NextWorker ==
    \/ \E aiId \in RequestAIs, difficulty \in RequestDifficulties,
          player \in {PLAYER_RED, PLAYER_BLUE} : InitRequest(aiId, difficulty, player)
    \/ GetMoveRequest
    \/ GetScoresRequest

SpecWorker == InitWorker /\ [][NextWorker]_vars

----------------------------------------------------------------------------
(* HexLobbyUI in PvE play: the page, the worker and the messages between   *)
(* them                                                                    *)

\* The strategy and the difficulty the page starts with: the first strategy
\* registered and 'medium'
SelectedAI == "advanced-hex"
SelectedDifficulty == "medium"

\* The board size the page starts with
LobbyBoardSize == 7

\* this.worker.postMessage({ type: 'init', data: { aiId, difficulty, player } })
postInit(l) ==
    [l EXCEPT !.inbox = Append(@, [type |-> "init", aiId |-> SelectedAI,
                                   difficulty |-> SelectedDifficulty,
                                   player |-> l.aiPlayer])]

\* performSwap()
performSwap(l) ==
    LET res == swapSides(l.game)
    IN IF res.ret THEN [l EXCEPT !.game = res.game, !.swapVisible = FALSE] ELSE l

\* makeAIMove() up to its await: the swap of the AI, else a getMove request
\* and the promise whose resolver is kept in _resolveMove
lobbyMakeAIMove(l) ==
    LET firstMove == l.game.history[1]
        center == l.game.size \div 2
    IN IF /\ l.game.swapAvailable /\ l.aiPlayer = 2 /\ l.game.history # <<>>
          /\ Abs(firstMove.row - center) + Abs(firstMove.col - center) <= 1
       THEN performSwap(l)
       ELSE [l EXCEPT !.inbox = Append(@, [type |-> "getMove", gameState |-> l.game]),
                      !.resolveMove = TRUE]

\* makeAIMove() after its await: the move of the response is played
afterMove(l, move) ==
    IF move \in Cells(l.game.size)
    THEN [l EXCEPT !.game = makeMove(l.game, move[1], move[2]).game]
    ELSE l

\* handleHexClick(row, col)
handleHexClick(l, row, col) ==
    LET res == makeMove(l.game, row, col)
        moved == [l EXCEPT !.game = res.game,
                           !.swapVisible = @ \/ (res.game.swapAvailable /\ l.humanPlayer = 1)]
    IN IF l.game.gameOver \/ l.game.currentPlayer # l.humanPlayer THEN l
       ELSE IF ~res.ret THEN l
       ELSE IF res.game.gameOver THEN moved
       ELSE lobbyMakeAIMove(moved)

\* handleSwap() in PvE
handleSwap(l) == lobbyMakeAIMove(performSwap(l))

\* startNewGamePvE() up to its await
startNewGamePvE(l) ==
    LET sides == IF l.selectedFirstPlayer = "player"
                 THEN [l EXCEPT !.humanPlayer = 1, !.aiPlayer = 2]
                 ELSE [l EXCEPT !.humanPlayer = 2, !.aiPlayer = 1]
    IN [postInit(sides) EXCEPT !.resolveInit = TRUE]

\* startNewGamePvE() after its await: hideModal, startNewGameInternal and the
\* first move of the AI
afterInit(l) ==
    LET fresh == [l EXCEPT !.modal = FALSE, !.game = NewHexGame(LobbyBoardSize),
                           !.swapVisible = FALSE]
    IN IF l.selectedFirstPlayer = "ai" THEN lobbyMakeAIMove(fresh) ELSE fresh

\* worker.onmessage of the page
pageOnMessage(l, response) ==
    IF response.type = "initComplete" /\ l.resolveInit
    THEN afterInit([l EXCEPT !.resolveInit = FALSE])
    ELSE IF response.type = "move" /\ l.resolveMove
    THEN afterMove([l EXCEPT !.resolveMove = FALSE], response.value)
    ELSE l

\* The getMove requests the page posted and has no response to yet
OutstandingGetMoves(l) ==
    Cardinality({i \in 1..Len(l.inbox) : l.inbox[i].type = "getMove"})
    + Cardinality({i \in 1..Len(l.outbox) : l.outbox[i].to = "getMove"})

\* The cells the player clicks and the strategy answers with
LobbyCells == {<<0, 0>>, <<3, 2>>}

\* The page posts no request while this many messages are in flight
MaxMessages == 3

InFlight(l) == Len(l.inbox) + Len(l.outbox)

\* The page after initPvE(). The markup that gives the swap button its first
\* display is not part of the sources: it can be shown or hidden.
InitLobby ==
    /\ game = NewHexGame(LobbyBoardSize)
    /\ last = NoCall
    /\ swapDone = FALSE
    /\ fast = NoFast
    /\ ai = NoAnswer
    /\ provider = NewProvider
    /\ worker = NewWorker
    /\ tree = NoTree
    /\ \E shown \in BOOLEAN :
           lobby = postInit([built |-> TRUE, game |-> NewHexGame(LobbyBoardSize),
                             humanPlayer |-> 1, aiPlayer |-> 2,
                             selectedFirstPlayer |-> "player", modal |-> FALSE,
                             swapVisible |-> shown, resolveMove |-> FALSE,
                             resolveInit |-> FALSE, inbox |-> <<>>, outbox |-> <<>>])

LobbyStep(l, op) ==
    /\ lobby' = l
    /\ last' = [op |-> op, row |-> 0, col |-> 0, ret |-> TRUE]
    /\ UNCHANGED <<game, swapDone, fast, ai, tree>>

\* A click on a cell of the board
HexClick(row, col) ==
    /\ ~lobby.modal /\ InFlight(lobby) < MaxMessages
    /\ handleHexClick(lobby, row, col) # lobby
    /\ LobbyStep(handleHexClick(lobby, row, col), "handleHexClick")
    /\ UNCHANGED <<provider, worker>>

\* A click on the swap button
SwapClick ==
    /\ ~lobby.modal /\ lobby.swapVisible /\ InFlight(lobby) < MaxMessages
    /\ LobbyStep(handleSwap(lobby), "handleSwap")
    /\ UNCHANGED <<provider, worker>>

\* A click on the new-game button
NewGameClick ==
    /\ ~lobby.modal
    /\ LobbyStep([lobby EXCEPT !.modal = TRUE], "showNewGameModal")
    /\ UNCHANGED <<provider, worker>>

\* A click on a first-player button of the modal
FirstPlayerClick(first) ==
    /\ lobby.modal /\ lobby.selectedFirstPlayer # first
    /\ LobbyStep([lobby EXCEPT !.selectedFirstPlayer = first], "selectFirstPlayer")
    /\ UNCHANGED <<provider, worker>>

\* A click on the start button of the modal
StartGameClick ==
    /\ lobby.modal /\ InFlight(lobby) < MaxMessages
    /\ LobbyStep(startNewGamePvE(lobby), "startNewGamePvE")
    /\ UNCHANGED <<provider, worker>>

\* A click on the cancel button of the modal
CancelClick ==
    /\ lobby.modal
    /\ LobbyStep([lobby EXCEPT !.modal = FALSE], "hideModal")
    /\ UNCHANGED <<provider, worker>>

\* The worker handles the oldest request and posts its response
WorkerHandles ==
    /\ lobby.inbox # <<>>
    /\ LET request == Head(lobby.inbox)
           started == handling(worker, request)
           outcomes ==
               IF request.type = "init"
               THEN {initAI(started, provider, request.aiId, request.difficulty,
                            request.player)}
               ELSE {[worker |-> w, provider |-> provider] :
                        w \in workerMakeMove(started, request.gameState)}
       IN \E res \in outcomes :
              /\ \/ res.worker.posted[1].type # "move"
                 \/ res.worker.posted[1].value \in LobbyCells \cup {NullMove, UndefinedMove}
              /\ worker' = res.worker
              /\ provider' = res.provider
              /\ LobbyStep([lobby EXCEPT
                               !.inbox = Tail(@),
                               !.outbox = Append(@, [type |-> res.worker.posted[1].type,
                                                     value |-> res.worker.posted[1].value,
                                                     to |-> request.type])],
                           "onmessage")

\* The page receives the oldest response
PageReceives ==
    /\ lobby.outbox # <<>>
    /\ LobbyStep(pageOnMessage([lobby EXCEPT !.outbox = Tail(@)], Head(lobby.outbox)),
                 "worker.onmessage")
    /\ UNCHANGED <<provider, worker>>

NextLobby ==
    \/ \E p \in LobbyCells : HexClick(p[1], p[2])
    \/ SwapClick
    \/ NewGameClick
    \/ \E first \in {"player", "ai"} : FirstPlayerClick(first)
    \/ StartGameClick
    \/ CancelClick
    \/ WorkerHandles
    \/ PageReceives

SpecLobby == InitLobby /\ [][NextLobby]_vars

----------------------------------------------------------------------------
(* The turn of the AI in PvE play: makeAIMove, the worker's answer and the *)
(* page's handling of it                                                   *)

\* The cells the player clicks and the strategy answers with: a corner, a
\* neighbour of the centre, the centre, and two more cells
TurnCells == {<<0, 0>>, <<3, 2>>, <<3, 3>>, <<0, 1>>, <<6, 6>>}

EmptyTurnCells(g) == {p \in TurnCells : g.board[p] = 0}

\* The page after startNewGamePvE() has run to its end on the 7x7 board, with
\* the player or the AI to move first. The swap button is hidden and stays
\* hidden: makeMove leaves swapAvailable false in a game that goes on.
InitTurn ==
    /\ game = NewHexGame(LobbyBoardSize)
    /\ last = NoCall
    /\ swapDone = FALSE
    /\ fast = NoFast
    /\ ai = NoAnswer
    /\ provider = NewProvider
    /\ worker = NewWorker
    /\ tree = NoTree
    /\ \E first \in {"player", "ai"} :
           lobby = afterInit([built |-> TRUE, game |-> NewHexGame(LobbyBoardSize),
                              humanPlayer |-> IF first = "player" THEN 1 ELSE 2,
                              aiPlayer |-> IF first = "player" THEN 2 ELSE 1,
                              selectedFirstPlayer |-> first, modal |-> FALSE,
                              swapVisible |-> FALSE, resolveMove |-> FALSE,
                              resolveInit |-> FALSE, inbox |-> <<>>, outbox |-> <<>>])

\* A click on a cell that leaves the strategy a cell to answer with
TurnHexClick(row, col) ==
    /\ Cardinality(EmptyTurnCells(lobby.game)) >= 2
    /\ HexClick(row, col)

\* The worker's makeMove(gameState) for the oldest request: the strategy
\* returns one of the candidates of getValidMoves (an empty cell, the centre
\* of the empty 7x7 board included) and the handler posts it as a move, or
\* the strategy throws and the handler posts an error
TurnWorkerAnswers ==
    /\ lobby.inbox # <<>>
    /\ Head(lobby.inbox).type = "getMove"
    /\ \E response \in {Response("error", "TypeError")}
                        \cup {Response("move", m) :
                                 m \in EmptyTurnCells(Head(lobby.inbox).gameState)} :
           LobbyStep([lobby EXCEPT
                         !.inbox = Tail(@),
                         !.outbox = Append(@, [type |-> response.type,
                                               value |-> response.value,
                                               to |-> "getMove"])],
                     "onmessage")
    /\ UNCHANGED <<provider, worker>>

NextTurn ==
    \/ \E p \in TurnCells : TurnHexClick(p[1], p[2])
    \/ TurnWorkerAnswers
    \/ PageReceives

\* The worker runs a handler for every request it has received, and the
\* page's event loop delivers every response posted to it
SpecTurn ==
    InitTurn /\ [][NextTurn]_vars
    /\ WF_vars(TurnWorkerAnswers) /\ WF_vars(PageReceives)

----------------------------------------------------------------------------
(* HexLobbyUI in PvP play: the board-size negotiation of two pages         *)

\* The two pages of a room, and the peer of a page
Peers == {1, 2}
PeerOf(p) == 3 - p

\* The sizes of the vote buttons the players click
VoteSizes == {7, 11}

\* The number of votes a player submits
MaxVotes == 2

\* this.opponentVote = null
NoVote == 0

\* showNegotiationModal() on a new page: the modal is shown, the vote button
\* is enabled, this.myVote has its default
NewNegotiation ==
    [myVote |-> 11, opponentVote |-> NoVote, voteDisabled |-> FALSE, modal |-> TRUE,
     enableTimers |-> 0, startTimers |-> 0, started |-> FALSE, boardSize |-> 0,
     votes |-> 0]

\* checkVoteAgreement(): the setTimeout calls are kept as counts of pending
\* timers
checkVoteAgreement(page) ==
    IF page.opponentVote = NoVote THEN page
    ELSE IF ~page.voteDisabled THEN page
    ELSE IF page.myVote = page.opponentVote
    THEN [page EXCEPT !.startTimers = @ + 1]
    ELSE [page EXCEPT !.opponentVote = NoVote, !.enableTimers = @ + 1]

\* Two pages after onPeerJoin has run on both; no vote is in flight
InitVote ==
    /\ game = NewHexGame(LobbyBoardSize)
    /\ last = NoCall
    /\ swapDone = FALSE
    /\ fast = NoFast
    /\ ai = NoAnswer
    /\ provider = NoProvider /\ worker = NoWorker /\ tree = NoTree
    /\ lobby = [built |-> TRUE,
                pages |-> [p \in Peers |-> NewNegotiation],
                channel |-> [p \in Peers |-> <<>>]]

VoteStep(pages, channel, op, p) ==
    /\ lobby' = [lobby EXCEPT !.pages = pages, !.channel = channel]
    /\ last' = [op |-> op, row |-> p, col |-> 0, ret |-> TRUE]
    /\ UNCHANGED <<game, swapDone, fast, ai, provider, worker, tree>>

\* A click on a board-size button of the negotiation modal
VoteSelect(p, size) ==
    /\ lobby.pages[p].modal /\ lobby.pages[p].myVote # size
    /\ VoteStep([lobby.pages EXCEPT ![p].myVote = size], lobby.channel, "selectVote", p)

\* A click on the vote button: submitVote()
SubmitVote(p) ==
    /\ lobby.pages[p].modal /\ ~lobby.pages[p].voteDisabled
    /\ lobby.pages[p].votes < MaxVotes
    /\ VoteStep([lobby.pages EXCEPT
                    ![p] = checkVoteAgreement([@ EXCEPT !.voteDisabled = TRUE,
                                                        !.votes = @ + 1])],
                [lobby.channel EXCEPT ![PeerOf(p)] = Append(@, lobby.pages[p].myVote)],
                "submitVote", p)

\* The getVote handler for the oldest vote sent to page p
DeliverVote(p) ==
    /\ lobby.channel[p] # <<>>
    /\ VoteStep([lobby.pages EXCEPT
                    ![p] = checkVoteAgreement([@ EXCEPT
                                                 !.opponentVote = Head(lobby.channel[p])])],
                [lobby.channel EXCEPT ![p] = Tail(@)],
                "getVote", p)

\* The timer set after a mismatch fires: the vote button is enabled again
EnableTimer(p) ==
    /\ lobby.pages[p].enableTimers > 0
    /\ VoteStep([lobby.pages EXCEPT ![p].enableTimers = @ - 1,
                                    ![p].voteDisabled = FALSE],
                lobby.channel, "enableVote", p)

\* The timer set after an agreement fires: hideNegotiationModal(),
\* this.boardSize = this.myVote and startGamePvP()
StartTimer(p) ==
    /\ lobby.pages[p].startTimers > 0
    /\ VoteStep([lobby.pages EXCEPT ![p].startTimers = @ - 1,
                                    ![p].modal = FALSE,
                                    ![p].boardSize = lobby.pages[p].myVote,
                                    ![p].started = TRUE],
                lobby.channel, "startGamePvP", p)

NextVote ==
    \/ \E p \in Peers, size \in VoteSizes : VoteSelect(p, size)
    \/ \E p \in Peers : SubmitVote(p)
    \/ \E p \in Peers : DeliverVote(p)
    \/ \E p \in Peers : EnableTimer(p)
    \/ \E p \in Peers : StartTimer(p)

\* Every vote sent is delivered and every timer set fires; the players click
\* when they like
SpecVote ==
    InitVote /\ [][NextVote]_vars
    /\ \A p \in Peers : WF_vars(DeliverVote(p)) /\ WF_vars(EnableTimer(p))
                          /\ WF_vars(StartTimer(p))

----------------------------------------------------------------------------
(* The search trees of MCTSAI (MCTSNode) and of AdvancedHexAI (G3MCTSNode) *)

\* A tree is a function from the paths of its nodes (the moves from the root
\* to the node) to the nodes; the parent of a node is its path without the
\* last move.
ParentPath(path) == SubSeq(path, 1, Len(path) - 1)

\* new MCTSNode(game, aiPlayer, move, parent); untriedMoves holds the valid
\* moves of the game in the order prioritizeMoves gives them, which is kept
\* here as the set of the valid moves that have no child yet
NewMCTSNode(g, move) ==
    [game |-> g, move |-> move, children |-> <<>>,
     wins |-> 0, visits |-> 0, raveWins |-> 0, raveVisits |-> 0]

untriedMoves(node) == Range(getValidMoves(node.game)) \ Range(node.children)

isFullyExpanded(node) == untriedMoves(node) = {}

isTerminal(node) == node.game.gameOver

\* The nodes the selection loop of getBestMove can stop at: from the root
\* down through nodes that are fully expanded and not terminal. selectChild
\* compares floating-point UCB1 + RAVE values; any child can be the one.
RECURSIVE selectedFrom(_, _)
selectedFrom(nodes, path) ==
    IF isFullyExpanded(nodes[path]) /\ ~isTerminal(nodes[path])
    THEN UNION {selectedFrom(nodes, Append(path, m)) : m \in Range(nodes[path].children)}
    ELSE {path}

\* MCTSNode.expand() with the untried move that is first in line
expand(nodes, path, move) ==
    LET newGame == makeMove(nodes[path].game, move[1], move[2]).game
    IN [nodes EXCEPT ![path].children = Append(@, move)]
       @@ (Append(path, move) :> NewMCTSNode(newGame, move))

\* MCTSNode.findSimulationCriticalMove(game)
findSimulationCriticalMove(g) ==
    LET moves == getValidMoves(g)
        opponent == Other(g.currentPlayer)
        winning == SelectSeq(moves, LAMBDA m :
                                 checkWin(withStone(g, m, g.currentPlayer), g.currentPlayer))
        blocking == SelectSeq(moves, LAMBDA m :
                                  checkWin(withStone(g, m, opponent), opponent))
    IN IF winning # <<>> THEN winning[1]
       ELSE IF blocking # <<>> THEN blocking[1]
       ELSE NullMove

\* MCTSNode.simulate(): the results { winner, playedMoves } the playout can
\* end with. Each played move is logged with simGame.currentPlayer read after
\* simGame.makeMove. A move that is not critical is sampled with a positive
\* probability for every valid move.
RECURSIVE simulateFrom(_, _)
simulateFrom(simGame, playedMoves) ==
    IF simGame.gameOver \/ getValidMoves(simGame) = <<>>
    THEN {[winner |-> simGame.winner, playedMoves |-> playedMoves]}
    ELSE LET criticalMove == findSimulationCriticalMove(simGame)
             choices == IF criticalMove # NullMove THEN {criticalMove}
                        ELSE Range(getValidMoves(simGame))
         IN UNION {LET after == makeMove(simGame, m[1], m[2]).game
                   IN simulateFrom(after,
                                   Append(playedMoves,
                                          [move |-> m, player |-> after.currentPlayer])) :
                       m \in choices}

simulate(node) == simulateFrom(node.game, <<>>)

\* The RAVE update of backpropagate at the node of a path: the children of
\* its parent whose move is in playedMoves with player equal to
\* this.game.currentPlayer
raveTouched(nodes, path, result) ==
    {c \in Range(nodes[ParentPath(path)].children) :
        \E i \in 1..Len(result.playedMoves) :
            /\ result.playedMoves[i].move = c
            /\ result.playedMoves[i].player = nodes[path].game.currentPlayer}

\* MCTSNode.backpropagate(result), from the node of the path up to the root
RECURSIVE backpropagate(_, _, _, _)
backpropagate(nodes, path, result, aiPlayer) ==
    LET won == (result.winner = aiPlayer)
        counted == [nodes EXCEPT ![path].visits = @ + 1,
                                 ![path].wins = IF won THEN @ + 1 ELSE @]
    IN IF path = <<>> THEN counted
       ELSE LET up == ParentPath(path)
                touched == raveTouched(nodes, path, result)
                raved == [p \in DOMAIN counted |->
                            IF p # <<>> /\ ParentPath(p) = up /\ p[Len(p)] \in touched
                            THEN [counted[p] EXCEPT
                                     !.raveVisits = @ + 1,
                                     !.raveWins = IF won THEN @ + 1 ELSE @]
                            ELSE counted[p]]
            IN backpropagate(raved, up, result, aiPlayer)

\* child.wins / Math.max(child.visits, 1) of one child is greater than that
\* of another: the counts are small integers, for which the comparison of the
\* two quotients is the comparison of the cross products
winRateGreater(a, b) ==
    LET max1(v) == IF v > 1 THEN v ELSE 1
    IN a.wins * max1(b.visits) > b.wins * max1(a.visits)

\* The loop over root.children at the end of getBestMove, from child i on,
\* with the best child so far; maxVisits and bestWinRate are the counts of
\* that child. visits > maxVisits * 1.15, >= maxVisits * 0.85 and
\* >= maxVisits * 0.95 are compared in hundredths.
RECURSIVE bestChildFrom(_, _, _)
bestChildFrom(children, i, bestChild) ==
    IF i > Len(children) THEN bestChild
    ELSE LET child == children[i]
             maxVisits == bestChild.visits
             take == \/ 100 * child.visits > 115 * maxVisits
                     \/ /\ 100 * child.visits >= 85 * maxVisits
                        /\ \/ child.visits > maxVisits
                           \/ /\ 100 * child.visits >= 95 * maxVisits
                              /\ winRateGreater(child, bestChild)
         IN bestChildFrom(children, i + 1, IF take THEN child ELSE bestChild)

\* The robust child selection of getBestMove: root.children[0] is read
\* without a test, so the list is not empty
robustChild(children) == bestChildFrom(children, 1, children[1])

\* The counts of the children of a root, in the order of root.children
childCounts(nodes) ==
    [i \in 1..Len(nodes[<<>>].children) |->
        LET child == nodes[<<nodes[<<>>].children[i]>>]
        IN [move |-> child.move, visits |-> child.visits, wins |-> child.wins]]

\* new G3MCTSNode(parent, move, player) of AdvancedHexAI; the parent is the
\* node of the path without its last move
NewG3MCTSNode(move, player) ==
    [move |-> move, player |-> player, children |-> <<>>,
     visits |-> 0, wins |-> 0, raveVisits |-> 0, raveWins |-> 0,
     isTerminal |-> FALSE, isExpanded |-> FALSE]

\* AdvancedHexAI.select(node, fastGame): the leaves the descent can stop at,
\* each with the FastHexGame after the moves of the descent. selectChild
\* compares floating-point scores; any child can be the one.
RECURSIVE g3Select(_, _, _)
g3Select(nodes, path, fastGame) ==
    IF nodes[path].isExpanded /\ ~nodes[path].isTerminal
    THEN UNION {g3Select(nodes, Append(path, m), fastMakeMove(fastGame, m[1], m[2])) :
                    m \in Range(nodes[path].children)}
    ELSE {[path |-> path, fast |-> fastGame]}

\* AdvancedHexAI.expand(node, fastGame): every valid move becomes a child
g3Expand(nodes, path, fastGame) ==
    IF getWinner(fastGame).ret # 0
    THEN [nodes EXCEPT ![path].isTerminal = TRUE]
    ELSE LET validMoves == fastGetValidMoves(fastGame)
             nextPlayer == IF nodes[path].player = 1 THEN 2 ELSE 1
             made == [q \in {Append(path, m) : m \in Range(validMoves)} |->
                         NewG3MCTSNode(q[Len(q)], nextPlayer)]
         IN [nodes EXCEPT ![path].children = validMoves,
                          ![path].isExpanded = TRUE,
                          ![path].isTerminal = (validMoves = <<>>)]
            @@ made

\* FastHexGame.playoutSmart(): the games a playout can end with, ret the
\* winner it returns (0 when the cells run out with no winner)
RECURSIVE playoutSmart(_)
playoutSmart(f) ==
    LET w == getWinner(f)
    IN IF w.ret # 0 THEN {[w.fast EXCEPT !.ret = w.ret]}
       ELSE IF w.fast.emptyCells = <<>> THEN {[w.fast EXCEPT !.ret = 0]}
       ELSE LET save == bridgeSave(w.fast)
            IN UNION {playoutSmart(placeStone(w.fast, idx)) :
                          idx \in (IF save # -1 THEN {save} ELSE randomPicks(w.fast))}

\* The RAVE update of AdvancedHexAI.backpropagate at one node: the children
\* whose cell is in the set of the moves of nextPlayer in movesHistory
g3RaveTouched(nodes, path, fastGame) ==
    LET children == nodes[path].children
        nextPlayer == nodes[Append(path, children[1])].player
    IN {c \in Range(children) :
           \E i \in 1..Len(fastGame.movesHistory) :
               /\ fastGame.movesHistory[i].id = c[1] * fastGame.size + c[2]
               /\ (fastGame.movesHistory[i].player = 1) = (nextPlayer = 1)}

\* backpropagate that counts the simulation at the leaf only
g3Backpropagate_LeafOnly(nodes, path, winner, fastGame) ==
    [nodes EXCEPT ![path].visits = @ + 1,
                  ![path].wins = IF nodes[path].player = winner THEN @ + 1 ELSE @]

\* AdvancedHexAI.backpropagate(node, winner, fastGame), from the node of the
\* path up to the root
RECURSIVE g3Backpropagate(_, _, _, _)
g3Backpropagate(nodes, path, winner, fastGame) ==
    LET counted == [nodes EXCEPT ![path].visits = @ + 1,
                                 ![path].wins = IF nodes[path].player = winner
                                                THEN @ + 1 ELSE @]
        children == nodes[path].children
        raved == IF children = <<>> THEN counted
                 ELSE LET nextPlayer == nodes[Append(path, children[1])].player
                          touched == g3RaveTouched(nodes, path, fastGame)
                      IN [q \in DOMAIN counted |->
                             IF q # <<>> /\ ParentPath(q) = path /\ q[Len(q)] \in touched
                             THEN [counted[q] EXCEPT
                                      !.raveVisits = @ + 1,
                                      !.raveWins = IF nextPlayer = winner
                                                   THEN @ + 1 ELSE @]
                             ELSE counted[q]]
    IN IF path = <<>> THEN raved
       ELSE g3Backpropagate(raved, ParentPath(path), winner, fastGame)

\* AdvancedHexAI.runSimulation(root, fastGame): the trees it can leave, each
\* with the leaf, the winner and the movesHistory of the simulation.
\* fastGame.reset() at its end restores the FastHexGame of the root.
runSimulation(nodes, fastGame) ==
    UNION {LET node == sel.path
               w == getWinner(sel.fast)
               grown == IF w.ret = 0 /\ ~nodes[node].isExpanded /\ ~nodes[node].isTerminal
                        THEN g3Expand(nodes, node, w.fast)
                        ELSE nodes
               ends == IF w.ret = 0 THEN playoutSmart(w.fast)
                       ELSE {[w.fast EXCEPT !.ret = w.ret]}
           IN {[nodes |-> g3Backpropagate(grown, node, e.ret, e),
                leaf |-> node,
                result |-> [winner |-> e.ret, playedMoves |-> e.movesHistory]] :
                   e \in ends} :
              sel \in g3Select(nodes, <<>>, fastGame)}

\* The board sizes of the searched games, and the number of loop iterations
\* of one search
TreeSizes == {2}
MaxIterations == 3

InitTree ==
    /\ \E n \in TreeSizes : game = NewHexGame(n)
    /\ last = NoCall
    /\ swapDone = FALSE
    /\ fast = NoFast
    /\ ai = NoAnswer
    /\ provider = NoProvider /\ worker = NoWorker /\ lobby = NoLobby
    /\ tree = NoTree

\* A legal move of the game, before a search starts
TreeHostMove(row, col) ==
    /\ ~tree.built
    /\ makeMove(game, row, col).ret
    /\ game' = makeMove(game, row, col).game
    /\ last' = [op |-> "makeMove", row |-> row, col |-> col, ret |-> TRUE]
    /\ UNCHANGED <<swapDone, fast, ai, provider, worker, lobby, tree>>

\* getBestMove past its early returns: const root = new MCTSNode(game.copy(),
\* this.aiPlayer)
MctsRoot(aiPlayer) ==
    /\ ~tree.built
    /\ tree' = [built |-> TRUE, variant |-> "mcts", aiPlayer |-> aiPlayer,
                nodes |-> (<<>> :> NewMCTSNode(game, NullMove)),
                iterations |-> 0, leaf |-> <<>>,
                result |-> [winner |-> NULL, playedMoves |-> <<>>]]
    /\ last' = [op |-> "mctsRoot", row |-> 0, col |-> 0, ret |-> TRUE]
    /\ UNCHANGED <<game, swapDone, fast, ai, provider, worker, lobby>>

\* One iteration of the loop of getBestMove: selection, expansion, simulation
\* and backpropagation
MctsIteration ==
    /\ tree.built /\ tree.variant = "mcts" /\ tree.iterations < MaxIterations
    /\ \E selected \in selectedFrom(tree.nodes, <<>>) :
       \E move \in (IF isTerminal(tree.nodes[selected])
                       \/ untriedMoves(tree.nodes[selected]) = {}
                    THEN {NullMove} ELSE untriedMoves(tree.nodes[selected])) :
           LET grown == IF move = NullMove THEN tree.nodes
                        ELSE expand(tree.nodes, selected, move)
               leaf == IF move = NullMove THEN selected ELSE Append(selected, move)
           IN \E result \in simulate(grown[leaf]) :
                  tree' = [tree EXCEPT
                              !.nodes = backpropagate(grown, leaf, result, tree.aiPlayer),
                              !.iterations = @ + 1, !.leaf = leaf, !.result = result]
    /\ last' = [op |-> "mctsIteration", row |-> 0, col |-> 0, ret |-> TRUE]
    /\ UNCHANGED <<game, swapDone, fast, ai, provider, worker, lobby>>

\* AdvancedHexAI.getMove up to its loop: the root stands for the position
\* before the mover's turn, so its player is the opponent; expand(root)
G3Root ==
    /\ ~tree.built
    /\ tree' = [built |-> TRUE, variant |-> "advanced", aiPlayer |-> game.currentPlayer,
                nodes |-> g3Expand(<<>> :> NewG3MCTSNode(NullMove, Other(game.currentPlayer)),
                                   <<>>, NewFastHexGame(game)),
                iterations |-> 0, leaf |-> <<>>,
                result |-> [winner |-> NULL, playedMoves |-> <<>>]]
    /\ last' = [op |-> "g3Root", row |-> 0, col |-> 0, ret |-> TRUE]
    /\ UNCHANGED <<game, swapDone, fast, ai, provider, worker, lobby>>

\* One runSimulation(root, fastGame) of the loop of getMove
G3RunSimulation ==
    /\ tree.built /\ tree.variant = "advanced" /\ tree.iterations < MaxIterations
    /\ \E out \in runSimulation(tree.nodes, NewFastHexGame(game)) :
           tree' = [tree EXCEPT !.nodes = out.nodes, !.iterations = @ + 1,
                                !.leaf = out.leaf, !.result = out.result]
    /\ last' = [op |-> "runSimulation", row |-> 0, col |-> 0, ret |-> TRUE]
    /\ UNCHANGED <<game, swapDone, fast, ai, provider, worker, lobby>>

\* The end of getBestMove, the simulation budget used up: the robust child
\* selection over root.children. With no child root.children[0] is undefined
\* and the read of its visits throws.
MctsBestChild ==
    /\ tree.built /\ tree.variant = "mcts" /\ tree.iterations = MaxIterations
    /\ ai.strategy = "none"
    /\ ai' = IF tree.nodes[<<>>].children = <<>>
             THEN [strategy |-> "mcts", path |-> "throws", move |-> UndefinedMove]
             ELSE [strategy |-> "mcts", path |-> "tree",
                   move |-> robustChild(childCounts(tree.nodes)).move]
    /\ last' = [op |-> "mctsBestChild", row |-> 0, col |-> 0, ret |-> TRUE]
    /\ UNCHANGED <<game, swapDone, fast, provider, worker, lobby, tree>>

NextTree ==
    \/ \E p \in Cells(game.size) : TreeHostMove(p[1], p[2])
    \/ \E aiPlayer \in {PLAYER_RED, PLAYER_BLUE} : MctsRoot(aiPlayer)
    \/ MctsIteration
    \/ MctsBestChild
    \/ G3Root
    \/ G3RunSimulation

SpecTree == InitTree /\ [][NextTree]_vars

----------------------------------------------------------------------------
(* The worker's AdvancedHexAI between getMove and getScores requests       *)

\* The number of getMove requests the worker answers
MaxGetMoves == 1

\* G3MCTSNode.getBestChild of the root: the first child with the most visits,
\* NullMove with no child
getBestChild(nodes) ==
    LET children == nodes[<<>>].children
        visitsOf(i) == nodes[<<children[i]>>].visits
    IN IF children = <<>> THEN NullMove
       ELSE children[CHOOSE i \in 1..Len(children) :
                        /\ \A j \in 1..Len(children) : visitsOf(j) <= visitsOf(i)
                        /\ \A j \in 1..(i - 1) : visitsOf(j) < visitsOf(i)]

\* AdvancedHexAI.updateAnalytics(root): lastScores after clear() and the
\* set() calls, a map from the moves of the visited children to the score
\* (child.visits / maxVisits) * 100, kept as its two counts
updateAnalytics(nodes) ==
    LET children == nodes[<<>>].children
        counts == {0} \cup {nodes[<<c>>].visits : c \in Range(children)}
        maxVisits == CHOOSE v \in counts : \A u \in counts : u <= v
    IN [m \in {c \in Range(children) : nodes[<<c>>].visits > 0} |->
           [visits |-> nodes[<<m>>].visits, maxVisits |-> maxVisits]]

\* new Map(): no entries
EmptyMap == [m \in {} |-> 0]

\* The worker after init with 'advanced-hex': new AdvancedHexAI
InitScores ==
    /\ \E n \in TreeSizes : game = NewHexGame(n)
    /\ last = NoCall
    /\ swapDone = FALSE
    /\ fast = NoFast
    /\ ai = NoAnswer
    /\ provider = NoProvider /\ lobby = NoLobby /\ tree = NoTree
    /\ worker = [built |-> TRUE, lastScores |-> EmptyMap, searches |-> 0,
                 posted |-> <<>>]

\* A move on the page's game while the worker is idle: the human's move, or
\* the move the worker answered with
ScoresHostMove(row, col) ==
    /\ ~tree.built
    /\ makeMove(game, row, col).ret
    /\ game' = makeMove(game, row, col).game
    /\ last' = [op |-> "makeMove", row |-> row, col |-> col, ret |-> TRUE]
    /\ UNCHANGED <<swapDone, fast, ai, provider, worker, lobby, tree>>

\* The worker's makeMove(gameState) reaches getMove: the root and expand
ScoresGetMove ==
    /\ worker.searches < MaxGetMoves
    /\ G3Root

\* The end of getMove after the loop: getBestChild, updateAnalytics unless
\* the root has no child, and the response with the move
ScoresAnswer ==
    /\ tree.built /\ tree.variant = "advanced" /\ tree.iterations = MaxIterations
    /\ \E bestChild \in {getBestChild(tree.nodes)} :
           worker' = [worker EXCEPT
                         !.lastScores = IF bestChild = NullMove THEN @
                                        ELSE updateAnalytics(tree.nodes),
                         !.searches = @ + 1,
                         !.posted = <<Response("move", bestChild)>>]
    /\ tree' = NoTree
    /\ last' = [op |-> "getMove", row |-> 0, col |-> 0, ret |-> TRUE]
    /\ UNCHANGED <<game, swapDone, fast, ai, provider, lobby>>

\* The worker's getScores(gameState) with the page's game as gameState:
\* currentAI.getNormalizedScores() returns lastScores
ScoresRequest ==
    /\ ~tree.built
    /\ worker' = [worker EXCEPT !.posted = <<Response("scores", worker.lastScores)>>]
    /\ last' = [op |-> "getScores", row |-> 0, col |-> 0, ret |-> TRUE]
    /\ UNCHANGED <<game, swapDone, fast, ai, provider, lobby, tree>>

NextScores ==
    \/ \E p \in Cells(game.size) : ScoresHostMove(p[1], p[2])
    \/ ScoresGetMove
    \/ G3RunSimulation
    \/ ScoresAnswer
    \/ ScoresRequest

SpecScores == InitScores /\ [][NextScores]_vars

----------------------------------------------------------------------------
(* One HexHeuristicSearch and the memo table it keeps from call to call    *)

MemoSizes == {2}

\* The number of getBestMove calls made on the one instance
MaxSearches == 2

\* options.maxDepth and options.beamWidth of the calls
MemoDepths == {1, 2, 3}
MemoBeams == {1, 6}

InitMemo ==
    /\ \E n \in MemoSizes : game = NewHexGame(n)
    /\ last = NoCall
    /\ swapDone = FALSE
    /\ fast = NoFast
    /\ ai = [strategy |-> "negamax", searches |-> 0, cache |-> EmptyCache]
    /\ provider = NoProvider /\ worker = NoWorker /\ lobby = NoLobby
    /\ tree = NoTree

\* A legal move of the game, before or between the searches
MemoPlay(row, col) ==
    /\ makeMove(game, row, col).ret
    /\ game' = makeMove(game, row, col).game
    /\ last' = [op |-> "makeMove", row |-> row, col |-> col, ret |-> TRUE]
    /\ UNCHANGED <<swapDone, fast, ai, provider, worker, lobby, tree>>

\* getBestMove(game, player, options) for the side to move: negamax on a copy
\* of the game with this.cache as the earlier calls left it
MemoSearch(maxDepth, beamWidth) ==
    /\ ai.searches < MaxSearches
    /\ \E r \in {negamax(ai.cache, game, maxDepth, NegInf, PosInf,
                         game.currentPlayer, beamWidth)} :
           ai' = [strategy |-> "negamax", searches |-> ai.searches + 1,
                  cache |-> r.cache, score |-> r.score, move |-> r.move,
                  maxDepth |-> maxDepth, beamWidth |-> beamWidth,
                  player |-> game.currentPlayer,
                  hit |-> (getCacheKey(game, maxDepth, game.currentPlayer)
                              \in DOMAIN ai.cache)]
    /\ last' = [op |-> "getBestMove", row |-> 0, col |-> 0, ret |-> TRUE]
    /\ game' = afterSearchOnCopy(game)
    /\ UNCHANGED <<swapDone, fast, provider, worker, lobby, tree>>

NextMemo ==
    \/ \E p \in Cells(game.size) : MemoPlay(p[1], p[2])
    \/ \E maxDepth \in MemoDepths, beamWidth \in MemoBeams :
           MemoSearch(maxDepth, beamWidth)

SpecMemo == InitMemo /\ [][NextMemo]_vars

----------------------------------------------------------------------------
(* The smart playouts of the simulations of one AdvancedHexAI.getMove      *)

\* Board sizes of the playouts; 7 is the size with the banned first move
PlayoutSizes == {3, 7}

\* The number of moves played on the board before getMove is called
MaxHostMoves == 1

\* The number of moves select() makes down the tree in one simulation
MaxSelectMoves == 1

\* The values of Math.random() in a playout, in hundredths; one playout draws
\* the same value at every turn
RandomDraws == {0, 50, 99}

\* The cells of the moves of the host and of the tree: the top-left corner
\* and the centre
TreeCells(n) == SnapshotCells(n) \cup {<<n \div 2, n \div 2>>}

InitPlayout ==
    /\ \E n \in PlayoutSizes : game = NewHexGame(n)
    /\ last = NoCall
    /\ swapDone = FALSE
    /\ fast = NoFast
    /\ ai = NoAnswer
    /\ provider = NoProvider /\ worker = NoWorker /\ lobby = NoLobby /\ tree = NoTree

\* A legal move of the game, before getMove is called
PlayoutHostMove(row, col) ==
    /\ ~fast.built
    /\ game.moveCount < MaxHostMoves
    /\ makeMove(game, row, col).ret
    /\ game' = makeMove(game, row, col).game
    /\ last' = [op |-> "makeMove", row |-> row, col |-> col, ret |-> TRUE]
    /\ UNCHANGED <<swapDone, fast, ai, provider, worker, lobby, tree>>

\* AdvancedHexAI.getMove on a game that is not over: new FastHexGame(game)
\* and expand(root), which gives the root a child for every valid move
PlayoutNew ==
    /\ ~fast.built
    /\ ~game.gameOver
    /\ fast' = getWinner(NewFastHexGame(game)).fast
    /\ ai' = [strategy |-> "advanced", draw |-> 0]
    /\ last' = [op |-> "fastNew", row |-> 0, col |-> 0, ret |-> TRUE]
    /\ UNCHANGED <<game, swapDone, provider, worker, lobby, tree>>

\* select(): one step down the tree, to a child of an expanded node that is
\* not terminal
PlayoutSelect(row, col) ==
    /\ fast.built /\ fast.pc = "select"
    /\ Len(fast.movesHistory) < MaxSelectMoves
    /\ getWinner(fast).ret = 0
    /\ <<row, col>> \in Range(fastGetValidMoves(fast))
    /\ fast' = fastMakeMove(fast, row, col)
    /\ last' = [op |-> "fastMakeMove", row |-> row, col |-> col, ret |-> TRUE]
    /\ UNCHANGED <<game, swapDone, ai, provider, worker, lobby, tree>>

\* runSimulation after select(): the root is expanded and has children, so
\* select() has made at least one move; getWinner(), and with no winner
\* expand() and the start of playoutSmart
PlayoutStart(draw) ==
    /\ fast.built /\ fast.pc = "select"
    /\ fast.movesHistory # <<>>
    /\ \E w \in {getWinner(fast)} :
           /\ fast' = [w.fast EXCEPT !.pc = IF w.ret = 0 THEN "playout" ELSE "done",
                                     !.ret = w.ret]
           /\ last' = [op |-> "simulate", row |-> 0, col |-> 0, ret |-> (w.ret # 0)]
    /\ ai' = [strategy |-> "advanced", draw |-> draw]
    /\ UNCHANGED <<game, swapDone, provider, worker, lobby, tree>>

\* The outcomes of one turn of the while (true) loop of playoutSmart from the
\* game w.fast that getWinner() left with the verdict w.ret: a return, or a
\* stone on the cell of the bridge save or on a drawn cell
playoutTurns(w, draw) ==
    IF w.ret # 0
    THEN {[fast |-> [w.fast EXCEPT !.pc = "done", !.ret = w.ret],
           op |-> "playoutReturn", idx |-> 0, ret |-> TRUE]}
    ELSE IF w.fast.emptyCells = <<>>
    THEN {[fast |-> [w.fast EXCEPT !.pc = "done", !.ret = 0],
           op |-> "playoutReturn", idx |-> 0, ret |-> FALSE]}
    ELSE LET save == bridgeSave(w.fast)
         IN {[fast |-> placeStone(w.fast, idx), op |-> "playoutMove", idx |-> idx,
              ret |-> (save # -1)] :
                idx \in (IF save # -1 THEN {save} ELSE drawnPicks(w.fast, draw))}

\* One turn of the loop
PlayoutTurn ==
    /\ fast.built /\ fast.pc = "playout"
    /\ \E turn \in playoutTurns(getWinner(fast), ai.draw) :
           /\ fast' = turn.fast
           /\ last' = [op |-> turn.op, row |-> turn.idx \div fast.size,
                       col |-> turn.idx % fast.size, ret |-> turn.ret]
    /\ UNCHANGED <<game, swapDone, ai, provider, worker, lobby, tree>>

NextPlayout ==
    \/ \E p \in TreeCells(game.size) : PlayoutHostMove(p[1], p[2])
    \/ PlayoutNew
    \/ \E p \in TreeCells(game.size) : PlayoutSelect(p[1], p[2])
    \/ \E draw \in RandomDraws : PlayoutStart(draw)
    \/ PlayoutTurn

SpecPlayout == InitPlayout /\ [][NextPlayout]_vars

----------------------------------------------------------------------------
(* The nodes HeuristicAI.negamax enters from the root of a getMove call    *)

\* Boards on which evaluatePosition is finite; 7 is the size with the banned
\* first move
ExploreSizes == {4, 7}

\* The number of moves played on the board before the search is asked
MaxExploreMoves == 1

\* The number of plies below the root down to which the search is followed
MaxExplorePly == 3

InitExplore ==
    /\ \E n \in ExploreSizes : game = NewHexGame(n)
    /\ last = NoCall
    /\ swapDone = FALSE
    /\ fast = NoFast
    /\ ai = NoAnswer
    /\ provider = NoProvider /\ worker = NoWorker /\ lobby = NoLobby
    /\ tree = NoTree

\* A legal move of the game before the search; the 7x7 board is searched at
\* its first move
ExploreHostMove(row, col) ==
    /\ ~tree.built
    /\ game.size # 7
    /\ game.moveCount < MaxExploreMoves
    /\ makeMove(game, row, col).ret
    /\ game' = makeMove(game, row, col).game
    /\ last' = [op |-> "makeMove", row |-> row, col |-> col, ret |-> TRUE]
    /\ UNCHANGED <<swapDone, fast, ai, provider, worker, lobby, tree>>

\* getMove of a new HeuristicAI of a preset for the side to move: no critical
\* move, so negamax is entered on boardState.copy() with the window
\* (-Infinity, Infinity) and an empty memo table
ExploreRoot(preset) ==
    /\ ~tree.built
    /\ ~game.gameOver
    /\ findCriticalMove(game) = NullMove
    /\ tree' = [built |-> TRUE, variant |-> "negamax", node |-> copy(game).game,
                depth |-> preset.maxDepth, beamWidth |-> preset.beamWidth,
                ply |-> 0, parent |-> game, move |-> NullMove, ret |-> FALSE]
    /\ last' = [op |-> "getMove", row |-> 0, col |-> 0, ret |-> TRUE]
    /\ UNCHANGED <<game, swapDone, fast, ai, provider, worker, lobby>>

\* One iteration of the for loop of negamax at the node, and the entry into
\* the child: child = game.copy(); child.makeMove(move[0], move[1]);
\* negamax(child, depth - 1, ...). At the root every move of orderedMoves
\* gets its iteration: the scores are finite and beta is Infinity, so alpha
\* never reaches beta. Below the root the first iteration always runs. The
\* nodes of the first two plies are entered with no memo entry for their
\* key, so the loop is reached in them.
ExploreChild(i, orderedMoves) ==
    /\ tree.built
    /\ tree.depth > 0
    /\ ~tree.node.gameOver
    /\ tree.ply < MaxExplorePly
    /\ i <= Len(orderedMoves)
    /\ tree.ply = 0 \/ i = 1
    /\ \E r \in {makeMove(copy(tree.node).game, orderedMoves[i][1], orderedMoves[i][2])} :
           tree' = [tree EXCEPT !.node = r.game, !.depth = tree.depth - 1,
                                !.ply = tree.ply + 1, !.parent = tree.node,
                                !.move = orderedMoves[i], !.ret = r.ret]
    /\ last' = [op |-> "negamax", row |-> orderedMoves[i][1], col |-> orderedMoves[i][2],
                ret |-> TRUE]
    /\ UNCHANGED <<game, swapDone, fast, ai, provider, worker, lobby>>

\* The nodes followed are those whose candidates the fractions order as the
\* doubles do
NextExplore ==
    \/ \E p \in Cells(game.size) : ExploreHostMove(p[1], p[2])
    \/ \E preset \in HeuristicPresets : ExploreRoot(preset)
    \/ /\ tree.built
       /\ \E values \in {fractionsOf(tree.node, getValidMoves(tree.node))} :
              orderIsExact(values)
       /\ \E orderedMoves \in {orderMoves(tree.node, tree.beamWidth)} :
              \E i \in 1..Len(orderedMoves) : ExploreChild(i, orderedMoves)

SpecExplore == InitExplore /\ [][NextExplore]_vars

----------------------------------------------------------------------------
(* A HexGame and a second HexGame made from it by fromState or copy()      *)

CloneSizes == {1, 2}

\* The number of calls made on the second game
MaxCloneSteps == 2

\* The first game after a call on the second one left the second one as
\* `after`: what the second game writes into arrays it shares with the first
seenThrough(original, made, after) ==
    [original EXCEPT !.board = IF made.sharesRows THEN after.board ELSE @,
                     !.history = IF made.sharesHistory THEN after.history ELSE @]

\* testGame.board[row][col] = stone, as the strategies write on copies
writeStone(g, row, col, stone) == [g EXCEPT !.board[<<row, col>>] = stone]

InitClone ==
    /\ \E n \in CloneSizes : game = NewHexGame(n)
    /\ last = NoCall
    /\ swapDone = FALSE
    /\ fast = NoFast
    /\ ai = NoAnswer
    /\ provider = NoProvider /\ worker = NoWorker /\ lobby = NoLobby
    /\ tree = NoTree

\* A move on the first game, before the second one is made
ClonePlay(row, col) ==
    /\ ~worker.built
    /\ game.moveCount < MaxMoves
    /\ makeMove(game, row, col).ret
    /\ game' = makeMove(game, row, col).game
    /\ last' = [op |-> "makeMove", row |-> row, col |-> col, ret |-> TRUE]
    /\ UNCHANGED <<swapDone, fast, ai, provider, worker, lobby, tree>>

\* swapSides() on the first game, before the second one is made
CloneSwap ==
    /\ ~worker.built
    /\ swapSides(game).ret
    /\ game' = swapSides(game).game
    /\ last' = [op |-> "swapSides", row |-> 0, col |-> 0, ret |-> TRUE]
    /\ UNCHANGED <<swapDone, fast, ai, provider, worker, lobby, tree>>

\* The second game and what is kept to compare it with: the first game as
\* it was (original), and the results of the same calls on the first game's
\* value (twin, twinRet)
Made(via, made) ==
    [built |-> TRUE, via |-> via, game |-> made.game,
     sharesRows |-> made.sharesRows, sharesHistory |-> made.sharesHistory,
     original |-> game, twin |-> game, ret |-> TRUE, twinRet |-> TRUE, steps |-> 0]

\* const game = HexGame.fromState(gameState) of the worker's makeMove
FromState ==
    /\ ~worker.built
    /\ worker' = Made("fromState", fromState(game))
    /\ last' = [op |-> "fromState", row |-> 0, col |-> 0, ret |-> TRUE]
    /\ UNCHANGED <<game, swapDone, fast, ai, provider, lobby, tree>>

\* game.copy()
Copy ==
    /\ ~worker.built
    /\ worker' = Made("copy", copy(game))
    /\ last' = [op |-> "copy", row |-> 0, col |-> 0, ret |-> TRUE]
    /\ UNCHANGED <<game, swapDone, fast, ai, provider, lobby, tree>>

\* A call on the second game that answers r: the second game, the first game
\* as the call leaves it, and the same call on the twin answering t
OnSecond(op, row, col, r, t) ==
    /\ worker' = [worker EXCEPT !.game = r.game, !.ret = r.ret,
                                !.twin = t.game, !.twinRet = t.ret,
                                !.steps = @ + 1]
    /\ game' = seenThrough(game, worker, r.game)
    /\ last' = [op |-> op, row |-> row, col |-> col, ret |-> r.ret]
    /\ UNCHANGED <<swapDone, fast, ai, provider, lobby, tree>>

\* makeMove(row, col) on the second game, for coordinates on and off the board
SecondMakeMove(row, col) ==
    /\ worker.built /\ worker.steps < MaxCloneSteps
    /\ OnSecond("secondMakeMove", row, col,
                makeMove(worker.game, row, col), makeMove(worker.twin, row, col))

\* swapSides() on the second game
SecondSwapSides ==
    /\ worker.built /\ worker.steps < MaxCloneSteps
    /\ OnSecond("secondSwapSides", 0, 0, swapSides(worker.game), swapSides(worker.twin))

\* board[row][col] = stone on the second game
SecondWriteStone(row, col, stone) ==
    /\ worker.built /\ worker.steps < MaxCloneSteps
    /\ OnSecond("secondWriteStone", row, col,
                [ret |-> TRUE, game |-> writeStone(worker.game, row, col, stone)],
                [ret |-> TRUE, game |-> writeStone(worker.twin, row, col, stone)])

NextClone ==
    \/ \E p \in Cells(game.size) : ClonePlay(p[1], p[2])
    \/ CloneSwap
    \/ FromState
    \/ Copy
    \/ \E row, col \in -1..game.size : SecondMakeMove(row, col)
    \/ SecondSwapSides
    \/ \E p \in Cells(game.size) : \E stone \in {PLAYER_RED, PLAYER_BLUE} :
           SecondWriteStone(p[1], p[2], stone)

SpecClone == InitClone /\ [][NextClone]_vars

----------------------------------------------------------------------------
(* The robust child selection of MCTSAI.getBestMove on the counts of any   *)
(* root                                                                    *)

\* The number of children of the root, their visit counts and win counts
MaxChildren == 3
PickVisits == 18..22
PickWins == {0, 9, 18}

PickMoves == [i \in 1..MaxChildren |-> <<0, i - 1>>]

InitPick ==
    /\ game = NewHexGame(MaxChildren)
    /\ last = NoCall
    /\ swapDone = FALSE
    /\ fast = NoFast
    /\ ai = NoAnswer
    /\ provider = NoProvider /\ worker = NoWorker /\ lobby = NoLobby
    /\ \E n \in 1..MaxChildren :
       \E visits \in [1..n -> PickVisits], wins \in [1..n -> PickWins] :
           tree = [built |-> TRUE, variant |-> "counts",
                   children |-> [i \in 1..n |-> [move |-> PickMoves[i],
                                                 visits |-> visits[i],
                                                 wins |-> wins[i]]]]

\* The end of getBestMove on a root with these children
PickBestChild ==
    /\ tree.built /\ tree.variant = "counts" /\ ai.strategy = "none"
    /\ ai' = [strategy |-> "mcts", path |-> "tree",
              move |-> robustChild(tree.children).move]
    /\ last' = [op |-> "mctsBestChild", row |-> 0, col |-> 0, ret |-> TRUE]
    /\ UNCHANGED <<game, swapDone, fast, provider, worker, lobby, tree>>

NextPick == PickBestChild

SpecPick == InitPick /\ [][NextPick]_vars

----------------------------------------------------------------------------
(* getWinningPath                                                          *)

\* A reconstruction that leaves out the cell that has no parent
RECURSIVE pathTo_WithoutFirst(_, _, _)
pathTo_WithoutFirst(parent, current, path) ==
    IF parent[current] = NullMove THEN path
    ELSE pathTo_WithoutFirst(parent, parent[current], <<current>> \o path)

\* The path reconstruction of getWinningPath: path.unshift(current) while
\* current is not null, along the parent links
RECURSIVE pathTo(_, _, _)
pathTo(parent, current, path) ==
    IF current = NullMove THEN path
    ELSE pathTo(parent, parent[current], <<current>> \o path)

\* The while loop of getWinningPath: the path, or null
RECURSIVE bfsPath(_, _, _, _, _)
bfsPath(g, player, queue, visited, parent) ==
    IF queue = <<>> THEN [isNull |-> TRUE, path |-> <<>>]
    ELSE LET cur == Head(queue) IN
         IF ReachedFarEdge(g, player, cur)
         THEN [isNull |-> FALSE, path |-> pathTo(parent, cur, <<>>)]
         ELSE LET fresh == SelectSeq(getNeighbors(g, cur[1], cur[2]),
                                     LAMBDA q : q \notin visited /\ g.board[q] = player)
              IN bfsPath(g, player, Tail(queue) \o fresh, visited \cup Range(fresh),
                         [q \in Cells(g.size) |->
                             IF q \in Range(fresh) THEN cur ELSE parent[q]])

\* HexGame.getWinningPath(player)
getWinningPath(g, player) ==
    LET start == StartEdge(g, player)
    IN bfsPath(g, player, start, Range(start), [q \in Cells(g.size) |-> NullMove])

\* The boards the evaluator is applied to: every placement of stones with the
\* stone counts of alternating play
EvalSizes == {2, 3}

StonesOf(b, side) == Cardinality({p \in DOMAIN b : b[p] = side})

EvalBoards(n) ==
    {b \in [Cells(n) -> {EMPTY, PLAYER_RED, PLAYER_BLUE}] :
        /\ StonesOf(b, PLAYER_RED) <= StonesOf(b, PLAYER_BLUE) + 1
        /\ StonesOf(b, PLAYER_BLUE) <= StonesOf(b, PLAYER_RED) + 1}

InitEval ==
    /\ \E n \in EvalSizes : \E b \in EvalBoards(n) :
           game = [NewHexGame(n) EXCEPT !.board = b]
    /\ last = NoCall
    /\ swapDone = FALSE
    /\ fast = NoFast
    /\ ai = NoAnswer
    /\ provider = NoProvider /\ worker = NoWorker /\ lobby = NoLobby
    /\ tree = NoTree

\* HexEvaluator.isVirtuallyConnected(game, pos1, pos2, player) on two cells
\* of the board; the functions are static and read the game only, so one
\* call is followed on each board
VirtuallyConnected(pos1, pos2, player) ==
    /\ last = NoCall
    /\ last' = [op |-> "isVirtuallyConnected", row |-> 0, col |-> 0,
                ret |-> isVirtuallyConnected(game, pos1, pos2, player),
                pos1 |-> pos1, pos2 |-> pos2, player |-> player]
    /\ UNCHANGED <<game, swapDone, fast, ai, provider, worker, lobby, tree>>

\* HexEvaluator.calculateResistance(game, player)
Resistance(player) ==
    /\ last = NoCall
    /\ last' = [op |-> "calculateResistance", row |-> 0, col |-> 0,
                ret |-> calculateResistance(game, player), player |-> player]
    /\ UNCHANGED <<game, swapDone, fast, ai, provider, worker, lobby, tree>>

\* HexGame.getWinningPath(player) of a game with the board
WinningPath(player) ==
    /\ last = NoCall
    /\ LET found == getWinningPath(game, player)
       IN last' = [op |-> "getWinningPath", row |-> 0, col |-> 0,
                   ret |-> ~found.isNull, path |-> found.path, player |-> player]
    /\ UNCHANGED <<game, swapDone, fast, ai, provider, worker, lobby, tree>>

NextEval ==
    \/ \E pos1, pos2 \in Cells(game.size) : \E player \in {game.currentPlayer} :
           VirtuallyConnected(pos1, pos2, player)
    \/ \E player \in {PLAYER_RED, PLAYER_BLUE} : Resistance(player)
    \/ \E player \in {PLAYER_RED, PLAYER_BLUE} : WinningPath(player)

SpecEval == InitEval /\ [][NextEval]_vars

----------------------------------------------------------------------------
(* Claims about HexGame, checked under SpecGame                            *)

InBounds(g, row, col) == row >= 0 /\ row < g.size /\ col >= 0 /\ col < g.size

\* The calls claim C2 says are refused, stated on the game before the call
Refusable(g, row, col) ==
    \/ ~InBounds(g, row, col)
    \/ g.board[<<row, col>>] # EMPTY
    \/ (g.size = 7 /\ g.moveCount = 0 /\ row = 3 /\ col = 3)
    \/ g.gameOver

\* C2: makeMove(r,c) returns false and leaves every field of the game unchanged
\* whenever the cell is out of bounds, occupied, the centre as the first move
\* of a 7x7 game, or the game is already over.
C2_MakeMoveRefusesAndKeepsGame ==
    [][(last'.op = "makeMove" /\ Refusable(game, last'.row, last'.col))
          => (last'.ret = FALSE /\ game' = game)]_vars

C2_Witness ==
    /\ last.op = "makeMove" /\ last.ret = FALSE
    /\ InBounds(game, last.row, last.col)
    /\ game.board[<<last.row, last.col>>] # EMPTY
    /\ ~game.gameOver

\* C3: in every reachable state swapSides() succeeds if and only if exactly one
\* move has been played and no swap has been performed yet.
C3_SwapSucceedsIffOneMoveAndNoSwapYet ==
    swapSides(game).ret <=> (game.moveCount = 1 /\ ~swapDone)

\* C4: right after the first successful makeMove of a game swapAvailable is
\* true; it is false before the first move and after any later move.
C4_SwapAvailableExactlyAfterFirstMove ==
    /\ (last.op = "makeMove" /\ last.ret /\ game.moveCount = 1) => game.swapAvailable
    /\ game.moveCount = 0 => ~game.swapAvailable
    /\ game.moveCount >= 2 => ~game.swapAvailable

Recoloured(b, n) ==
    [p \in Cells(n) |-> IF b[p] = PLAYER_RED THEN PLAYER_BLUE
                        ELSE IF b[p] = PLAYER_BLUE THEN PLAYER_RED
                        ELSE EMPTY]

\* C5: a swapSides() that succeeds turns every red stone blue and every blue
\* stone red, keeps empty cells empty, clears swapAvailable, makes red the
\* side to move and keeps moveCount, gameOver and winner; one that fails
\* changes nothing.
C5_SwapSidesEffect ==
    [][last'.op = "swapSides" =>
          IF last'.ret
          THEN /\ game'.board = Recoloured(game.board, game.size)
               /\ game'.swapAvailable = FALSE
               /\ game'.currentPlayer = PLAYER_RED
               /\ game'.moveCount = game.moveCount
               /\ game'.gameOver = game.gameOver
               /\ game'.winner = game.winner
          ELSE game' = game]_vars

C5_Witness ==
    /\ last.op = "swapSides" /\ last.ret
    /\ \E p \in Cells(game.size) : game.board[p] = PLAYER_BLUE

\* C6: in every reachable state moveCount equals the number of non-empty cells
\* and the length of the move log.
C6_MoveCountIsStonesAndLogLength ==
    /\ game.moveCount = Cardinality({p \in Cells(game.size) : game.board[p] # EMPTY})
    /\ game.moveCount = Len(game.history)

C6_Witness ==
    /\ last.op = "makeMove" /\ last.ret
    /\ game.moveCount >= 3

\* C7: getValidMoves() returns exactly the cells for which isValidMove is true,
\* in every reachable state, the empty 7x7 board included.
C7_ValidMovesAreTheValidCells ==
    Range(getValidMoves(game))
        = {p \in Cells(game.size) : isValidMove(game, p[1], p[2])}

----------------------------------------------------------------------------
(* Claims about FastHexGame, checked under SpecFast                        *)

\* The HexGame holding the stones of a FastHexGame
Layout(f) ==
    [NewHexGame(f.size) EXCEPT
        !.board = [p \in Cells(f.size) |-> f.board[p[1] * f.size + p[2]]]]

\* C1: for every layout reached by building a FastHexGame from a HexGame and
\* then applying makeMove and playout placements, FastHexGame.checkWin(side)
\* gives the verdict of the breadth-first HexGame.checkWin(side), both sides.
C1_FastCheckWinAgreesWithBfs ==
    fast.built =>
        \A side \in {PLAYER_RED, PLAYER_BLUE} :
            fastCheckWin(fast, side).ret = checkWin(Layout(fast), side)

C1_Witness ==
    /\ fast.built /\ fast.size = 3
    /\ fast.pc = "done" /\ fast.ret = PLAYER_BLUE
    /\ last.op = "playoutReturn"
    /\ Len(fast.movesHistory) >= 3
    /\ checkWin(Layout(fast), PLAYER_BLUE)

----------------------------------------------------------------------------
(* Claims about the strategies, checked under SpecSearch                    *)

\* The side to move wins against every defence: exhaustive minimax, without
\* pruning and without a memo table
RECURSIVE CanForceWin(_)
CanForceWin(g) ==
    \E p \in Cells(g.size) :
        /\ isValidMove(g, p[1], p[2])
        /\ LET h == makeMove(g, p[1], p[2]).game
           IN \/ h.gameOver /\ h.winner = g.currentPlayer
              \/ ~h.gameOver /\ ~CanForceWin(h)

ExactMinimax(g) == IF CanForceWin(g) THEN 1000 ELSE -1000

\* The cells where a stone of the side to move wins at once
WinningCells(g) ==
    {p \in Cells(g.size) : /\ isValidMove(g, p[1], p[2])
                           /\ checkWin(withStone(g, p, g.currentPlayer), g.currentPlayer)}

\* The cells where a stone of the opponent would win at once
ThreatCells(g) ==
    {p \in Cells(g.size) : /\ g.board[p] = EMPTY
                           /\ checkWin(withStone(g, p, Other(g.currentPlayer)),
                                       Other(g.currentPlayer))}

\* C8: a bounded search run for the side to move with a beam at least as wide
\* as the number of legal moves and a depth of at least the number of empty
\* cells returns, at the root, the exact minimax value of the position:
\* +1000 if the side to move can force a win, -1000 otherwise.
C8_FullWidthSearchIsExactMinimax ==
    (/\ ai.strategy = "negamax"
     /\ ~game.gameOver
     /\ ai.player = game.currentPlayer
     /\ ai.beamWidth >= Len(getValidMoves(game))
     /\ ai.maxDepth >= Len(getValidMoves(game)))
    => ai.score = ExactMinimax(game)

C10_MctsTakesImmediateWin ==
    (ai.strategy = "mcts" /\ ~game.gameOver /\ WinningCells(game) # {})
    => ai.move \in WinningCells(game)

\* C11: AdvancedHexAI.getMove makes the immediate win/block check and looks
\* into the opening book before its tree search: whenever the side to move
\* has an immediately winning cell, the move returned is an immediately
\* winning cell, however the playouts turn out.
C11_AdvancedTakesImmediateWin ==
    (ai.strategy = "advanced" /\ ~game.gameOver /\ WinningCells(game) # {})
    => ai.move \in WinningCells(game)

C13_BookMoveIsNullOrValid ==
    ai.strategy = "book"
        => /\ \/ ai.move = NullMove
              \/ /\ ai.move \in Cells(game.size)
                 /\ isValidMove(game, ai.move[1], ai.move[2])
           /\ game.moveCount > 4 => ai.move = NullMove

C13_Witness ==
    /\ ai.strategy = "book" /\ game.moveCount \in 1..4
    /\ ai.move \in Cells(game.size)
    /\ isValidMove(game, ai.move[1], ai.move[2])

\* C14: on a board with no empty cell, getMove of RandomAI, HeuristicAI,
\* MCTSAI and AdvancedHexAI returns a null move as an ordinary result: the
\* call does not throw.
C14_FullBoardGivesNullMove ==
    (ai.strategy \in {"random", "heuristic", "mcts", "advanced"}
     /\ getValidMoves(game) = <<>>)
        => ai.path # "throw" /\ ai.move = NullMove

----------------------------------------------------------------------------
(* Claims about AIProvider and the worker, checked under SpecWorker         *)

\* The init request asks for a strategy that is not registered or for a
\* difficulty key the strategy does not define
UnknownStrategy(request) == request.aiId \notin RegisteredAIs
UnknownDifficulty(request) ==
    request.aiId \in RegisteredAIs /\ request.difficulty \notin DifficultyKeys(request.aiId)

\* C16: AIProvider.createAI with an unregistered strategy id or with a
\* difficulty key the strategy does not define fails with a distinct error
\* before any strategy instance is constructed and leaves currentAI of the
\* provider unchanged.
C16_CreateAIFailsOnUnknown ==
    [][(worker'.request.type = "init"
        /\ (UnknownStrategy(worker'.request) \/ UnknownDifficulty(worker'.request)))
          => /\ provider' = provider
             /\ ~worker'.constructorCalled
             /\ UnknownStrategy(worker'.request)
                    => worker'.posted = <<Response("error", "AI not found")>>
             /\ UnknownDifficulty(worker'.request)
                    => worker'.posted = <<Response("error", "Difficulty not found")>>]_vars

\* The response that answers a request of a type
Answer(type) ==
    IF type = "init" THEN "initComplete" ELSE IF type = "getMove" THEN "move" ELSE "scores"

----------------------------------------------------------------------------
(* Claims about the page, checked under SpecLobby                          *)

\* C18: in PvE play the page never has two getMove requests outstanding at
\* the worker: a second getMove is posted only after the response to the
\* previous one has been received.
C18_OneGetMoveOutstanding == OutstandingGetMoves(lobby) <= 1

----------------------------------------------------------------------------
(* Claims about FastHexGame, checked under SpecFast                        *)

FastIdx(f) == 0..(f.size * f.size - 1)

Occupied(f) == {i \in FastIdx(f) : f.board[i] # 0}

\* The stones joined to the stones of S through adjacent stones of one side
RECURSIVE growGroup(_, _, _)
growGroup(f, side, S) ==
    LET more == S \cup {n \in FastIdx(f) :
                           /\ f.board[n] = side
                           /\ \E m \in S : n \in Range(getNeighborsIdx(f, m))}
    IN IF more = S THEN S ELSE growGroup(f, side, more)

groupOf(f, i) == growGroup(f, f.board[i], {i})

\* The edge bits of the cells of S holding stones of side: 1 top and 2 bottom
\* for red, 4 left and 8 right for blue
edgeMask(f, side, S) ==
    LET has(k) == \E i \in S :
                      \/ k = 1 /\ side = 1 /\ i \div f.size = 0
                      \/ k = 2 /\ side = 1 /\ i \div f.size = f.size - 1
                      \/ k = 4 /\ side = 2 /\ i % f.size = 0
                      \/ k = 8 /\ side = 2 /\ i % f.size = f.size - 1
        bit(k) == IF has(k) THEN k ELSE 0
    IN bit(1) + bit(2) + bit(4) + bit(8)

\* Every occupied cell has an occupied root; the cells with root r are the
\* stones joined to r, and the mask at r is the OR of their edge bits
GroupsAreComponents(f) ==
    \A i \in Occupied(f) :
        IF f.parent[i] = i
        THEN \E grp \in {groupOf(f, i)} :
                 /\ grp = {j \in Occupied(f) : ufRoot(f.parent, j) = i}
                 /\ f.groupStatus[i] = edgeMask(f, f.board[i], grp)
        ELSE ufRoot(f.parent, i) \in Occupied(f)

\* C19: after construction and after every makeMove and playout placement,
\* two occupied cells have the same union-find root exactly when they hold the
\* same side and are joined through adjacent stones of that side, the mask
\* stored at the root of a group is the OR of the edge bits of its cells, and a
\* placement never separates two cells that had the same root.
C19_RootsAreGroupsWithEdgeMasks ==
    [][/\ last'.op \in {"fastNew", "fastMakeMove", "playoutMove"}
             => GroupsAreComponents(fast')
       /\ last'.op \in {"fastMakeMove", "playoutMove"}
             => \A i, j \in Occupied(fast) :
                    ufRoot(fast.parent, i) = ufRoot(fast.parent, j)
                        => ufRoot(fast'.parent, i) = ufRoot(fast'.parent, j)]_vars

C19_Witness ==
    /\ last.op = "playoutMove"
    /\ \E i, j \in Occupied(fast) :
           /\ i # j /\ ufRoot(fast.parent, i) = ufRoot(fast.parent, j)
           /\ fast.groupStatus[ufRoot(fast.parent, i)] \in {3, 12}
    /\ \E i, j \in Occupied(fast) :
           fast.board[i] = fast.board[j] /\ ufRoot(fast.parent, i) # ufRoot(fast.parent, j)

\* The cells that restore a bridge of the mover the opponent's last stone
\* has intruded on: two stones of the mover that are not adjacent, the last
\* stone on one of their common neighbours, the other common neighbour empty
BridgeRestoringCells(f) ==
    IF f.movesHistory = <<>> THEN {}
    ELSE LET oppIdx == f.movesHistory[Len(f.movesHistory)].id
             mine == {i \in FastIdx(f) : f.board[i] = f.currentPlayer}
             adjacent(a, b) == b \in Range(getNeighborsIdx(f, a))
         IN {y \in FastIdx(f) :
                /\ y # oppIdx /\ f.board[y] = 0
                /\ \E a, b \in mine :
                       /\ a # b /\ ~adjacent(a, b)
                       /\ adjacent(a, oppIdx) /\ adjacent(b, oppIdx)
                       /\ adjacent(a, y) /\ adjacent(b, y)}

\* C20: a stone of a smart playout is placed by the bridge rule exactly when
\* the opponent's last stone is on one of the two common neighbours of two
\* non-adjacent stones of the mover and their other common neighbour is empty,
\* and the stone is then placed on such an other common neighbour.
C20_BridgeRuleExactlyOnIntrusion ==
    [][last'.op = "playoutMove" =>
          /\ last'.ret <=> (BridgeRestoringCells(fast) # {})
          /\ last'.ret =>
                 (last'.row * fast.size + last'.col) \in BridgeRestoringCells(fast)]_vars

----------------------------------------------------------------------------
(* Claims about the search trees, checked under SpecTree                   *)

\* The side that played the i-th move of the playout from a leaf: the sides
\* alternate from the side to move at the leaf
PlayoutMover(leafGame, i) ==
    IF i % 2 = 1 THEN leafGame.currentPlayer ELSE Other(leafGame.currentPlayer)

\* The cell was played during the playout by the side
PlayedBy(t, cell, side) ==
    \E i \in 1..Len(t.result.playedMoves) :
        /\ t.result.playedMoves[i].move = cell
        /\ PlayoutMover(t.nodes[t.leaf].game, i) = side

RaveVisitsOf(t, path) == IF path \in DOMAIN t.nodes THEN t.nodes[path].raveVisits ELSE 0

\* C21: in the backpropagation of one playout, for every node on the path
\* from the simulated leaf to the root, a child of the node's parent gets its
\* RAVE visit counter incremented exactly when its move was played during the
\* playout by the side to move at the parent, the final winning move of the
\* playout included.
C21_RaveCountsMovesOfParentSide ==
    [][(last'.op = "mctsIteration") =>
          \A k \in 1..Len(tree'.leaf) :
              LET up == SubSeq(tree'.leaf, 1, k - 1)
              IN \A c \in Range(tree'.nodes[up].children) :
                     (RaveVisitsOf(tree', Append(up, c)) = RaveVisitsOf(tree, Append(up, c)) + 1)
                         <=> PlayedBy(tree', c, tree'.nodes[up].game.currentPlayer)]_vars

\* C22: the move getBestMove returns after the simulations is the move of a
\* root child whose visit count is at least 95% of the highest visit count
\* among the root children, for every order and combination of counts.
C22_ReturnedChildWithinTolerance ==
    (tree.built /\ tree.variant = "counts" /\ ai.strategy = "mcts")
        => \A i, j \in 1..Len(tree.children) :
               tree.children[i].move = ai.move
                   => 100 * tree.children[i].visits >= 95 * tree.children[j].visits

\* The sum of the visits of the children of a node, from child i on
RECURSIVE childVisits(_, _, _)
childVisits(nodes, path, i) ==
    IF i > Len(nodes[path].children) THEN 0
    ELSE nodes[Append(path, nodes[path].children[i])].visits
         + childVisits(nodes, path, i + 1)

CountersInOrder(nodes) ==
    \A q \in DOMAIN nodes :
        /\ nodes[q].wins >= 0 /\ nodes[q].visits >= nodes[q].wins
        /\ nodes[q].raveWins >= 0 /\ nodes[q].raveVisits >= nodes[q].raveWins
        /\ nodes[q].visits >= childVisits(nodes, q, 1)

NoCounterDecreases(before, after) ==
    \A q \in DOMAIN before :
        /\ q \in DOMAIN after
        /\ after[q].visits >= before[q].visits
        /\ after[q].wins >= before[q].wins
        /\ after[q].raveVisits >= before[q].raveVisits
        /\ after[q].raveWins >= before[q].raveWins

\* C23: in the trees of MCTSAI and of AdvancedHexAI every node has
\* visits >= wins >= 0 and raveVisits >= raveWins >= 0, the visits of a node
\* are at least the sum of the visits of its children, and no counter of a
\* node decreases from one step of the search to the next.
C23_CountersOrderedAndMonotonic ==
    [][tree'.built =>
          /\ CountersInOrder(tree'.nodes)
          /\ tree.built => NoCounterDecreases(tree.nodes, tree'.nodes)]_vars

\* An AdvancedHexAI tree after its simulations, with a visited and won child
\* of a visited child of the root and a RAVE win
C23_Witness ==
    /\ tree.built /\ tree.variant = "advanced" /\ tree.iterations = MaxIterations
    /\ \E q \in DOMAIN tree.nodes :
           /\ Len(q) = 2 /\ tree.nodes[q].visits >= 1 /\ tree.nodes[q].wins >= 1
    /\ \E q \in DOMAIN tree.nodes : tree.nodes[q].raveWins >= 1

----------------------------------------------------------------------------
(* Claims about the scores of the bounded search, checked under SpecSearch *)

\* C29: the score the bounded search returns at a node is the score for the
\* side to move at that node: where that side has an immediately winning move
\* within the beam the score is +1000, and where the game is already lost for
\* it the score is -1000, whatever the depth.
C29_ScoreIsForSideToMove ==
    (ai.strategy = "negamax")
        => /\ (/\ ~game.gameOver
               /\ ai.player = game.currentPlayer
               /\ ai.maxDepth >= 1
               /\ ai.beamWidth >= Len(getValidMoves(game))
               /\ WinningCells(game) # {})
              => ai.score = 1000
           /\ (game.gameOver /\ ai.player = Other(game.winner))
              => ai.score = -1000

----------------------------------------------------------------------------
(* Claims about the memo table of the bounded search, checked under        *)
(* SpecMemo                                                                *)

\* C30: a search answered with the help of the memo table returns the score
\* and the move that the same search (same position, side to move, searching
\* side, depth and beam width) returns from an empty memo table, whatever
\* earlier searches with other beam widths or windows left in the table.
C30_MemoHitEqualsFreshSearch ==
    (last.op = "getBestMove")
        => LET fresh == negamax(EmptyCache, game, ai.maxDepth, NegInf, PosInf,
                                ai.player, ai.beamWidth)
           IN ai.score = fresh.score /\ ai.move = fresh.move

----------------------------------------------------------------------------
(* Claims about HexEvaluator, checked under SpecEval                       *)

\* C24: isVirtuallyConnected is symmetric in its two cells: for every board,
\* side and pair of cells A, B the answer for (A, B) is the answer for (B, A).
C24_VirtualConnectionSymmetric ==
    (last.op = "isVirtuallyConnected")
        => last.ret = isVirtuallyConnected(game, last.pos2, last.pos1, last.player)

\* The ten offsets the code lists
BridgeOffsets ==
    {<<2, 0>>, <<-2, 0>>, <<0, 2>>, <<0, -2>>, <<1, 1>>, <<-1, -1>>,
     <<1, -2>>, <<-1, 2>>, <<2, -1>>, <<-2, 1>>}

\* C25: isVirtuallyConnected is true for each of the ten listed offsets
\* whenever the two intermediate cells of that offset are in bounds and
\* empty, and false for every other offset.
C25_TrueOnTheTenOffsetsWithFreeCells ==
    (last.op = "isVirtuallyConnected")
        => LET dr == last.pos2[1] - last.pos1[1]
               dc == last.pos2[2] - last.pos1[2]
           IN last.ret =
                  (/\ <<dr, dc>> \in BridgeOffsets
                   /\ intermediatesFree(game, bridgeIntermediates(last.pos1[1],
                                                                  last.pos1[2], dr, dc)))

\* The board with the cells of a set filled with stones of a side
Filled(g, E, side) ==
    [g EXCEPT !.board = [p \in Cells(g.size) |-> IF p \in E THEN side ELSE g.board[p]]]

EmptyCellsOf(g) == {p \in Cells(g.size) : g.board[p] = EMPTY}

\* The least number of empty cells on a path of adjacent cells without an
\* opponent stone from the starting edge of a side to its opposite edge, INF
\* when there is no such path. A path with the empty cells E exists exactly
\* when the stones of the side together with E join the two edges.
LeastEmptyOnPath(g, side) ==
    IF ~checkWin(Filled(g, EmptyCellsOf(g), side), side) THEN INF
    ELSE minOf({Cardinality(E) : E \in {F \in SUBSET EmptyCellsOf(g) :
                                           checkWin(Filled(g, F, side), side)}})

\* C28: calculateResistance(board, side) is the least number of empty cells
\* on a path of adjacent non-opponent cells between the two edges of the
\* side, INF (1000000) when there is no path, and it is 0 exactly when
\* checkWin(side) holds.
C28_ResistanceIsLeastEmptyOnPath ==
    (last.op = "calculateResistance")
        => /\ last.ret = LeastEmptyOnPath(game, last.player)
           /\ (last.ret = 0) <=> checkWin(game, last.player)

\* A board on which blue has no path along one row: red has a stone in every
\* row, and blue needs two more stones
C28_Witness ==
    /\ last.op = "calculateResistance" /\ game.size = 3
    /\ last.player = PLAYER_BLUE /\ last.ret = 2
    /\ \A r \in 0..2 : \E c \in 0..2 : game.board[<<r, c>>] = PLAYER_RED

\* Two cells are adjacent in the 6-neighbour hex topology
Adjacent(a, b) ==
    <<b[1] - a[1], b[2] - a[2]>> \in
        {<<-1, 0>>, <<-1, 1>>, <<0, -1>>, <<0, 1>>, <<1, -1>>, <<1, 0>>}

\* C26: getWinningPath(side) is non-null exactly when checkWin(side) is true,
\* and a non-null path is a sequence of cells of the side that starts on the
\* starting edge of the side (row 0 for red, column 0 for blue), ends on the
\* opposite edge and in which every two consecutive cells are adjacent.
C26_WinningPathIffWinAndWellFormed ==
    (last.op = "getWinningPath")
        => /\ last.ret <=> checkWin(game, last.player)
           /\ last.ret =>
                  LET path == last.path
                      n == game.size
                  IN /\ Len(path) >= 1
                     /\ \A k \in 1..Len(path) :
                            path[k] \in Cells(n) /\ game.board[path[k]] = last.player
                     /\ IF last.player = PLAYER_RED THEN path[1][1] = 0
                        ELSE path[1][2] = 0
                     /\ IF last.player = PLAYER_RED THEN path[Len(path)][1] = n - 1
                        ELSE path[Len(path)][2] = n - 1
                     /\ \A k \in 1..(Len(path) - 1) : Adjacent(path[k], path[k + 1])

\* A path of blue on the 3x3 board that is not a straight row
C26_Witness ==
    /\ last.op = "getWinningPath" /\ last.ret /\ game.size = 3
    /\ last.player = PLAYER_BLUE
    /\ Len(last.path) >= 4

----------------------------------------------------------------------------
(* Claims about fromState and copy(), checked under SpecClone              *)

\* Two games give the same answers to isValidMove, getValidMoves and checkWin
SameAnswers(a, b) ==
    /\ \A row, col \in -1..a.size : isValidMove(a, row, col) = isValidMove(b, row, col)
    /\ getValidMoves(a) = getValidMoves(b)
    /\ \A side \in {PLAYER_RED, PLAYER_BLUE} : checkWin(a, side) = checkWin(b, side)

----------------------------------------------------------------------------
(* Claims about the moves the bounded search explores                      *)

StoneCount(g) == Cardinality({p \in Cells(g.size) : g.board[p] # EMPTY})

\* C31: every move the bounded search explores at a node is legal at that
\* node, so the child position it recurses into has exactly one stone more
\* than its parent and the other side to move (unless that stone wins), also
\* at the root of an empty 7x7 board, where the centre cell is banned.
C31_ExploredMovesAreLegal ==
    (tree.built /\ tree.variant = "negamax" /\ tree.ply > 0) =>
        /\ isValidMove(tree.parent, tree.move[1], tree.move[2])
        /\ StoneCount(tree.node) = StoneCount(tree.parent) + 1
        /\ \/ tree.node.gameOver
           \/ tree.node.currentPlayer = Other(tree.parent.currentPlayer)

----------------------------------------------------------------------------
(* Claims about the end of a game, checked under SpecGame                  *)

\* gameOver, winner and the connections on the grid of a game agree
EndAgreesWithGrid(g) ==
    /\ g.gameOver <=> g.winner # NULL
    /\ g.gameOver <=> (checkWin(g, PLAYER_RED) \/ checkWin(g, PLAYER_BLUE))
    /\ g.winner # NULL => checkWin(g, g.winner)
    /\ ~(checkWin(g, PLAYER_RED) /\ checkWin(g, PLAYER_BLUE))

\* C32: in every state reached from a fresh game by makeMove and swapSides,
\* gameOver is true iff winner is non-null iff some side has a winning
\* connection on the grid, the winner is that connected side, the two sides
\* are never both connected, and once gameOver is true no operation changes
\* the grid.
C32_EndOfGameIsConsistentAndFinal ==
    [][/\ EndAgreesWithGrid(game')
       /\ game.gameOver => game'.board = game.board]_vars

----------------------------------------------------------------------------
(* Claims about the smart playout, checked under SpecPlayout               *)

\* C33: every smart playout started from a position reachable in a search
\* terminates, its retry loop for the banned 7x7 centre included, places each
\* stone on a cell that was empty, and returns 1 or 2, naming a side that has
\* a winning connection on the final board; it never returns 0. Termination
\* is stated by its variant: a turn of the loop is always possible from the
\* state it leaves (the retry loop has a cell to end on), and a turn that
\* does not return takes one cell from the finite list of empty cells.
C33_PlayoutEndsWithAConnectedWinner ==
    [][/\ (fast'.built /\ fast'.pc = "playout") =>
              playoutTurns(getWinner(fast'), ai'.draw) # {}
       /\ last'.op = "playoutMove" =>
              /\ fast.board[last'.row * fast.size + last'.col] = 0
              /\ StoneCount(Layout(fast')) = StoneCount(Layout(fast)) + 1
              /\ Len(fast'.emptyCells) = Len(fast.emptyCells) - 1
       /\ last'.op = "playoutReturn" =>
              /\ fast'.ret \in {PLAYER_RED, PLAYER_BLUE}
              /\ fast'.board = fast.board
              /\ checkWin(Layout(fast'), fast'.ret)]_vars

\* A playout on the 7x7 board that started one move after the empty board
\* and returned after more than thirty turns
C33_Witness ==
    /\ fast.built /\ fast.size = 7 /\ fast.initialFilledCount = 0
    /\ fast.pc = "done" /\ last.op = "playoutReturn"
    /\ fast.ret \in {PLAYER_RED, PLAYER_BLUE}
    /\ Len(fast.movesHistory) > 30

----------------------------------------------------------------------------
(* Claims about the end of a simulation, checked under SpecFast            *)

\* The observable state of f is the one of the freshly constructed c: grid,
\* side to move, set of empty cells, stone count, the partition of the cells
\* by root, the boundary mask of every stone's group, and no history
SameAsConstruction(f, c) ==
    /\ f.board = c.board
    /\ f.currentPlayer = c.currentPlayer
    /\ Range(f.emptyCells) = Range(c.emptyCells)
    /\ Len(f.emptyCells) = Len(c.emptyCells)
    /\ f.filledCount = c.filledCount
    /\ f.movesHistory = <<>>
    /\ \A i, j \in FastIdx(c) :
           (ufRoot(f.parent, i) = ufRoot(f.parent, j))
               <=> (ufRoot(c.parent, i) = ufRoot(c.parent, j))
    /\ \A i \in Occupied(c) :
           f.groupStatus[ufRoot(f.parent, i)] = c.groupStatus[ufRoot(c.parent, i)]

\* C34: after every runSimulation (descent, expansion, playout, reset) the
\* shared FastHexGame is back in its construction state: grid, side to move,
\* empty cells, stone count, union-find partition and boundary masks are those
\* of new FastHexGame(game), and the move history is empty.
C34_SimulationRestoresConstructionState ==
    [][last'.op = "reset" => SameAsConstruction(fast', NewFastHexGame(game))]_vars

\* A simulation has ended on a 3x3 game that was not over and whose
\* construction joined two stones into one group: the simulation placed
\* stones, and the reset has taken them away
C34_Witness ==
    /\ last.op = "reset" /\ fast.built /\ fast.size = 3
    /\ ~game.gameOver
    /\ fast.movesHistory = <<>>
    /\ \E i, j \in Occupied(fast) :
           i # j /\ ufRoot(fast.parent, i) = ufRoot(fast.parent, j)

----------------------------------------------------------------------------
(* Claims about the win counters, checked under SpecTree                   *)

\* The side that played the move leading to the node of a path below the
\* root of a search on the host's game
MoverOf(path) ==
    IF Len(path) % 2 = 1 THEN game.currentPlayer ELSE Other(game.currentPlayer)

\* The wins of the node of a path, 0 for a node not made yet
WinsAt(nodes, path) == IF path \in DOMAIN nodes THEN nodes[path].wins ELSE 0

\* C35: in a search for the side to move, an iteration adds one to the win
\* counter of a node below the root exactly when the playout was won by the
\* side that played the move leading to that node, at every level of the
\* tree, the levels of the opponent's moves included.
C35_WinsCountTheMoversPlayouts ==
    [][(/\ last'.op \in {"mctsIteration", "runSimulation"}
        /\ tree.aiPlayer = game.currentPlayer)
          => \A k \in 1..Len(tree'.leaf) :
                 LET path == SubSeq(tree'.leaf, 1, k)
                 IN WinsAt(tree'.nodes, path) - WinsAt(tree.nodes, path)
                        = IF tree'.result.winner = MoverOf(path) THEN 1 ELSE 0]_vars

----------------------------------------------------------------------------
(* Claims about the confidence map, checked under SpecScores               *)

\* C36: the scores response to a getScores request is the confidence map of
\* the snapshot the request carries: every key is a cell that is empty in
\* the snapshot, every value lies in (0, 100], and the most-visited candidate
\* has the value 100.
C36_ScoresAreForTheSnapshot ==
    last.op = "getScores"
        => LET scores == worker.posted[1].value
           IN /\ \A m \in DOMAIN scores :
                     /\ game.board[m] = 0
                     /\ 0 < scores[m].visits /\ scores[m].visits <= scores[m].maxVisits
              /\ DOMAIN scores # {}
                     => \E m \in DOMAIN scores : scores[m].visits = scores[m].maxVisits

----------------------------------------------------------------------------
(* Claims about the turn of the AI, checked under SpecTurn                 *)

\* makeAIMove has posted its request and waits, in a game that is not over
\* with the AI to move
AITurnPending ==
    /\ lobby.resolveMove
    /\ ~lobby.game.gameOver
    /\ lobby.game.currentPlayer = lobby.aiPlayer

\* C37: whenever it is the AI's turn in a game that is not over and
\* makeAIMove has been started, eventually the AI's stone is placed (or the
\* AI swaps) and the turn passes to the human, or the game ends, whatever the
\* worker answers.
C37_AITurnEventuallyPasses ==
    AITurnPending ~> (lobby.game.gameOver
                        \/ lobby.game.currentPlayer = lobby.humanPlayer)

----------------------------------------------------------------------------
(* Claims about the board-size negotiation, checked under SpecVote         *)

\* C38: under every interleaving of vote submissions, vote deliveries and
\* re-enable timers, when one page starts a game with board size S the other
\* page eventually starts a game with the same size S; no page starts a game
\* while the other stays waiting for a vote.
C38_BothPeersStartTheSameSize ==
    \A p \in Peers : \A size \in VoteSizes :
        (lobby.pages[p].started /\ lobby.pages[p].boardSize = size)
            ~> (lobby.pages[PeerOf(p)].started
                  /\ lobby.pages[PeerOf(p)].boardSize = size)

----------------------------------------------------------------------------
(* Claims about a failed init, checked under SpecWorker                    *)

\* C39: an init request that fails (unknown strategy id or unknown
\* difficulty key) leaves the session state of the worker unchanged: the
\* current strategy instance, the current difficulty and the current AI side
\* are those before the request.
C39_FailedInitLeavesSession ==
    [][(/\ worker'.request.type = "init"
        /\ worker'.posted[1].type = "error")
          => /\ worker'.currentAI = worker.currentAI
             /\ worker'.currentDifficulty = worker.currentDifficulty
             /\ worker'.currentAIPlayer = worker.currentAIPlayer]_vars

====
